---- MODULE Spec2Model ----
(***************************************************************************)
(* Model of the gb_emul CPU core: register file, memory bus, cycle         *)
(* counter, instruction decoder (Instruction::fetch) and executor          *)
(* (Instruction::execute).                                                 *)
(*                                                                         *)
(* A MemorySection is a zero-initialised byte array; it is represented as  *)
(* a function from the offsets that hold a non-zero byte to that byte      *)
(* (every other offset reads 0).                                           *)
(***************************************************************************)
EXTENDS Integers, Sequences, FiniteSets, TLC

VARIABLES
    registers,        \* Cpu.registers : [af, bc, de, hl, sp, pc], each a u16
    memory,           \* Cpu.memory    : one field per MemorySection + IE
    cyclic,           \* Cpu.cyclic    : T-cycles elapsed
    panicked,         \* the thread has panicked (todo!(), arithmetic overflow)
    overflow_checks,  \* build profile: TRUE = debug (overflow panics), FALSE = release (wraps)
    last,             \* history: the last operation and what it returned
    prev,             \* history: the operation before the last one
    steps,            \* history: number of instructions stepped so far
    origin            \* history: the registers the frontend seeded

vars == <<registers, memory, cyclic, panicked, overflow_checks, last, prev, steps, origin>>

----------------------------------------------------------------------------
(* Bitwise operators on naturals (u8 / u16 values).                        *)

RECURSIVE And(_, _)
And(a, b) ==
    IF a = 0 \/ b = 0 THEN 0
    ELSE (a % 2) * (b % 2) + 2 * And(a \div 2, b \div 2)

RECURSIVE Or(_, _)
Or(a, b) ==
    IF a = 0 THEN b
    ELSE IF b = 0 THEN a
    ELSE (IF a % 2 = 1 \/ b % 2 = 1 THEN 1 ELSE 0) + 2 * Or(a \div 2, b \div 2)

RECURSIVE Xor(_, _)
Xor(a, b) ==
    IF a = 0 THEN b
    ELSE IF b = 0 THEN a
    ELSE ((a + b) % 2) + 2 * Xor(a \div 2, b \div 2)

Not8(a) == 255 - a

\* u16::from_be_bytes([hi, lo])
from_be_bytes(hi, lo) == hi * 256 + lo

\* u16::to_be_bytes(v) = [hi, lo]
to_be_bytes(v) == [hi |-> v \div 256, lo |-> v % 256]

\* i8::from_be_bytes([byte]) : the signed value of a byte
i8_from_be_bytes(byte) == IF byte >= 128 THEN byte - 256 ELSE byte

\* `let x = e; F(x)` : the body F sees the value of e once, under the name x
Bind(e, F(_)) == F(e)

----------------------------------------------------------------------------
(* memory/mod.rs : the address map                                         *)

ROM_BANK_START == 0
SWITCHABLE_ROM_BANK_START == 16384
VRAM_START == 32768
SWITCHABLE_RAM_BANK_START == 40960
INTERNAL_RAM_START == 49152
INTERNAL_RAM_ECHO_START == 57344
OAM_START == 65024
EMPTY_START == 65184
IO_PORTS_START == 65280
EMPTY_TWO_START == 65356
INTERNAL_RAM_TWO_START == 65408
INTERRUPT_ENABLE_REGISTER_START == 65535

INTERNAL_RAM_ECHO_SIZE == OAM_START - INTERNAL_RAM_ECHO_START

\* Range<usize>::contains : start <= x < end
Contains(range, x) == range.start <= x /\ x < range.end

ROM_BANK_RANGE == [start |-> ROM_BANK_START, end |-> SWITCHABLE_ROM_BANK_START]
SWITCHABLE_ROM_BANK_RANGE == [start |-> SWITCHABLE_ROM_BANK_START, end |-> VRAM_START]
VRAM_RANGE == [start |-> VRAM_START, end |-> SWITCHABLE_ROM_BANK_START]
SWITCHABLE_RAM_BANK_RANGE == [start |-> SWITCHABLE_RAM_BANK_START, end |-> INTERNAL_RAM_START]
INTERNAL_RAM_RANGE == [start |-> INTERNAL_RAM_START, end |-> INTERNAL_RAM_ECHO_START]
INTERNAL_RAM_ECHO_RANGE == [start |-> INTERNAL_RAM_ECHO_START, end |-> OAM_START]
OAM_RANGE == [start |-> OAM_START, end |-> EMPTY_START]
EMPTY_RANGE == [start |-> EMPTY_START, end |-> IO_PORTS_START]
IO_PORTS_RANGE == [start |-> IO_PORTS_START, end |-> EMPTY_TWO_START]
EMPTY_TWO_RANGE == [start |-> EMPTY_TWO_START, end |-> INTERNAL_RAM_TWO_START]
INTERNAL_RAM_TWO_RANGE ==
    [start |-> INTERNAL_RAM_TWO_START, end |-> INTERRUPT_ENABLE_REGISTER_START]

Bank(b, off) == [bank |-> b, off |-> off]

\* Bank::from_addr without the inner test that sends the low 0x1E00 bytes of
\* work RAM to the echo section.
Bank_from_addr_NoAlias(addr) ==
    IF Contains(ROM_BANK_RANGE, addr) THEN Bank("Rom", addr - ROM_BANK_START)
    ELSE IF Contains(SWITCHABLE_ROM_BANK_RANGE, addr)
        THEN Bank("SwitchableRom", addr - SWITCHABLE_ROM_BANK_START)
    ELSE IF Contains(VRAM_RANGE, addr) THEN Bank("Vram", addr - VRAM_START)
    ELSE IF Contains(SWITCHABLE_RAM_BANK_RANGE, addr)
        THEN Bank("SwitchableRam", addr - SWITCHABLE_RAM_BANK_START)
    ELSE IF Contains(INTERNAL_RAM_RANGE, addr)
        THEN Bank("InternalRam", addr - INTERNAL_RAM_START)
    ELSE IF Contains(INTERNAL_RAM_ECHO_RANGE, addr)
        THEN Bank("InternalRamEcho", addr - INTERNAL_RAM_ECHO_START)
    ELSE IF Contains(OAM_RANGE, addr) THEN Bank("Oam", addr - OAM_START)
    ELSE IF Contains(EMPTY_RANGE, addr) THEN Bank("Empty", addr - EMPTY_START)
    ELSE IF Contains(IO_PORTS_RANGE, addr) THEN Bank("IOPorts", addr - IO_PORTS_START)
    ELSE IF Contains(EMPTY_TWO_RANGE, addr) THEN Bank("EmptyTwo", addr - EMPTY_TWO_START)
    ELSE IF Contains(INTERNAL_RAM_TWO_RANGE, addr)
        THEN Bank("InternalRamTwo", addr - INTERNAL_RAM_TWO_START)
    ELSE Bank("None", 0)

\* Bank::from_addr : Some((bank, offset)), or None (bank = "None")
Bank_from_addr(addr) ==
    IF Contains(ROM_BANK_RANGE, addr) THEN Bank("Rom", addr - ROM_BANK_START)
    ELSE IF Contains(SWITCHABLE_ROM_BANK_RANGE, addr)
        THEN Bank("SwitchableRom", addr - SWITCHABLE_ROM_BANK_START)
    ELSE IF Contains(VRAM_RANGE, addr) THEN Bank("Vram", addr - VRAM_START)
    ELSE IF Contains(SWITCHABLE_RAM_BANK_RANGE, addr)
        THEN Bank("SwitchableRam", addr - SWITCHABLE_RAM_BANK_START)
    ELSE IF Contains(INTERNAL_RAM_RANGE, addr)
        THEN IF addr - INTERNAL_RAM_START < INTERNAL_RAM_ECHO_SIZE
             THEN Bank("InternalRamEcho", addr - INTERNAL_RAM_START)
             ELSE Bank("InternalRam", addr - INTERNAL_RAM_START)
    ELSE IF Contains(INTERNAL_RAM_ECHO_RANGE, addr)
        THEN Bank("InternalRamEcho", addr - INTERNAL_RAM_ECHO_START)
    ELSE IF Contains(OAM_RANGE, addr) THEN Bank("Oam", addr - OAM_START)
    ELSE IF Contains(EMPTY_RANGE, addr) THEN Bank("Empty", addr - EMPTY_START)
    ELSE IF Contains(IO_PORTS_RANGE, addr) THEN Bank("IOPorts", addr - IO_PORTS_START)
    ELSE IF Contains(EMPTY_TWO_RANGE, addr) THEN Bank("EmptyTwo", addr - EMPTY_TWO_START)
    ELSE IF Contains(INTERNAL_RAM_TWO_RANGE, addr)
        THEN Bank("InternalRamTwo", addr - INTERNAL_RAM_TWO_START)
    ELSE Bank("None", 0)

\* MemorySection::new : [0; N]
MemorySection_new == [i \in {} |-> 0]

\* MemorySection::get
MemorySection_get(sec, off) == IF off \in DOMAIN sec THEN sec[off] ELSE 0

\* MemorySection::set
MemorySection_set(sec, off, value) ==
    IF value = 0
    THEN [i \in (DOMAIN sec) \ {off} |-> sec[i]]
    ELSE [i \in (DOMAIN sec) \cup {off} |-> IF i = off THEN value ELSE sec[i]]

\* Memory::default
Memory_default ==
    [rom |-> MemorySection_new,
     switchable_rom |-> MemorySection_new,
     vram |-> MemorySection_new,
     switchable_ram |-> MemorySection_new,
     internal_ram |-> MemorySection_new,
     internal_ram_echo |-> MemorySection_new,
     oam |-> MemorySection_new,
     empty |-> MemorySection_new,
     io_ports |-> MemorySection_new,
     empty_two |-> MemorySection_new,
     internal_ram_two |-> MemorySection_new,
     interrupt_enable_register |-> 0]

\* Memory::get
Memory_get(m, addr) ==
    Bind(Bank_from_addr(addr), LAMBDA b :
    CASE b.bank = "Rom" -> MemorySection_get(m.rom, b.off)
      [] b.bank = "SwitchableRom" -> MemorySection_get(m.switchable_rom, b.off)
      [] b.bank = "Vram" -> MemorySection_get(m.vram, b.off)
      [] b.bank = "SwitchableRam" -> MemorySection_get(m.switchable_ram, b.off)
      [] b.bank = "InternalRam" -> MemorySection_get(m.internal_ram, b.off)
      [] b.bank = "InternalRamEcho" -> MemorySection_get(m.internal_ram_echo, b.off)
      [] b.bank = "Oam" -> MemorySection_get(m.oam, b.off)
      [] b.bank = "Empty" -> MemorySection_get(m.empty, b.off)
      [] b.bank = "IOPorts" -> MemorySection_get(m.io_ports, b.off)
      [] b.bank = "EmptyTwo" -> MemorySection_get(m.empty_two, b.off)
      [] b.bank = "InternalRamTwo" -> MemorySection_get(m.internal_ram_two, b.off)
      [] OTHER -> m.interrupt_enable_register)

\* Memory::put
Memory_put(m, addr, value) ==
    Bind(Bank_from_addr(addr), LAMBDA b :
    CASE b.bank = "Rom" ->
            [m EXCEPT !.rom = MemorySection_set(@, b.off, value)]
      [] b.bank = "SwitchableRom" ->
            [m EXCEPT !.switchable_rom = MemorySection_set(@, b.off, value)]
      [] b.bank = "Vram" ->
            [m EXCEPT !.vram = MemorySection_set(@, b.off, value)]
      [] b.bank = "SwitchableRam" ->
            [m EXCEPT !.switchable_ram = MemorySection_set(@, b.off, value)]
      [] b.bank = "InternalRam" ->
            [m EXCEPT !.internal_ram = MemorySection_set(@, b.off, value)]
      [] b.bank = "InternalRamEcho" ->
            [m EXCEPT !.internal_ram_echo = MemorySection_set(@, b.off, value),
                      !.internal_ram = MemorySection_set(@, b.off, value)]
      [] b.bank = "Oam" ->
            [m EXCEPT !.oam = MemorySection_set(@, b.off, value)]
      [] b.bank = "Empty" ->
            [m EXCEPT !.empty = MemorySection_set(@, b.off, value)]
      [] b.bank = "IOPorts" ->
            [m EXCEPT !.io_ports = MemorySection_set(@, b.off, value)]
      [] b.bank = "EmptyTwo" ->
            [m EXCEPT !.empty_two = MemorySection_set(@, b.off, value)]
      [] b.bank = "InternalRamTwo" ->
            [m EXCEPT !.internal_ram_two = MemorySection_set(@, b.off, value)]
      [] OTHER ->
            [m EXCEPT !.interrupt_enable_register = value])

----------------------------------------------------------------------------
(* cpu/registers.rs : the register file                                    *)

\* Registers::default
Registers_default == [af |-> 0, bc |-> 0, de |-> 0, hl |-> 0, sp |-> 0, pc |-> 0]

\* Registers::REGISTERS
REGISTERS == <<"B", "C", "D", "E", "H", "L", "F", "A">>

\* Registers::LONG_REGISTERS
LONG_REGISTERS == <<"BC", "DE", "HL", "SP">>

\* AccesBigEndianBytesU16::get_high / get_low
get_high(w) == to_be_bytes(w).hi
get_low(w) == to_be_bytes(w).lo

set_high_ClearsLow(w, byte) == byte * 256

\* *w.get_high_mut() = byte / *w.get_low_mut() = byte (little-endian host)
set_high(w, byte) == byte * 256 + (w % 256)
set_low(w, byte) == (w \div 256) * 256 + byte

\* Registers::get
Registers_get(regs, reg) ==
    CASE reg = "A" -> get_high(regs.af)
      [] reg = "B" -> get_high(regs.bc)
      [] reg = "C" -> get_low(regs.bc)
      [] reg = "D" -> get_high(regs.de)
      [] reg = "E" -> get_low(regs.de)
      [] reg = "F" -> get_low(regs.af)
      [] reg = "H" -> get_high(regs.hl)
      [] reg = "L" -> get_low(regs.hl)

\* *Registers::get_mut(reg) = byte
Registers_set(regs, reg, byte) ==
    CASE reg = "A" -> [regs EXCEPT !.af = set_high(@, byte)]
      [] reg = "B" -> [regs EXCEPT !.bc = set_high(@, byte)]
      [] reg = "C" -> [regs EXCEPT !.bc = set_low(@, byte)]
      [] reg = "D" -> [regs EXCEPT !.de = set_high(@, byte)]
      [] reg = "E" -> [regs EXCEPT !.de = set_low(@, byte)]
      [] reg = "F" -> [regs EXCEPT !.af = set_low(@, byte)]
      [] reg = "H" -> [regs EXCEPT !.hl = set_high(@, byte)]
      [] reg = "L" -> [regs EXCEPT !.hl = set_low(@, byte)]

\* Registers::get_long
Registers_get_long(regs, reg) ==
    CASE reg = "AF" -> regs.af
      [] reg = "BC" -> regs.bc
      [] reg = "DE" -> regs.de
      [] reg = "HL" -> regs.hl
      [] reg = "SP" -> regs.sp
      [] reg = "PC" -> regs.pc

\* *Registers::get_long_mut(reg) = value
Registers_set_long(regs, reg, value) ==
    CASE reg = "AF" -> [regs EXCEPT !.af = value]
      [] reg = "BC" -> [regs EXCEPT !.bc = value]
      [] reg = "DE" -> [regs EXCEPT !.de = value]
      [] reg = "HL" -> [regs EXCEPT !.hl = value]
      [] reg = "SP" -> [regs EXCEPT !.sp = value]
      [] reg = "PC" -> [regs EXCEPT !.pc = value]

ZERO_MASK == 128
SUBSTRACT_MASK == 64
HALF_CARRY_MASK == 32
CARRY_MASK == 16

\* impl Into<u8> for Flags
Flags_mask(flag) ==
    CASE flag = "Zero" -> ZERO_MASK
      [] flag = "Substract" -> SUBSTRACT_MASK
      [] flag = "HalfCarry" -> HALF_CARRY_MASK
      [] flag = "Carry" -> CARRY_MASK

SetFlags(z, n, h, cy) == [zero |-> z, substract |-> n, half_carry |-> h, carry |-> cy]

\* the all-false SetFlags that `..Default::default()` fills the other fields from
SetFlags_default == SetFlags(FALSE, FALSE, FALSE, FALSE)

\* impl From<u8> for SetFlags
SetFlags_from(flags) ==
    SetFlags(And(flags, ZERO_MASK) = ZERO_MASK,
             And(flags, SUBSTRACT_MASK) = SUBSTRACT_MASK,
             And(flags, HALF_CARRY_MASK) = HALF_CARRY_MASK,
             And(flags, CARRY_MASK) = CARRY_MASK)

\* impl Into<u8> for SetFlags
SetFlags_into(f) ==
    Or(Or(IF f.zero THEN ZERO_MASK ELSE 0, IF f.substract THEN SUBSTRACT_MASK ELSE 0),
       Or(IF f.half_carry THEN HALF_CARRY_MASK ELSE 0, IF f.carry THEN CARRY_MASK ELSE 0))

\* Registers::get_flags
Registers_get_flags(regs) == SetFlags_from(Registers_get(regs, "F"))

\* Registers::get_flag
Registers_get_flag(regs, flag) ==
    CASE flag = "Zero" -> Registers_get_flags(regs).zero
      [] flag = "Substract" -> Registers_get_flags(regs).substract
      [] flag = "HalfCarry" -> Registers_get_flags(regs).half_carry
      [] flag = "Carry" -> Registers_get_flags(regs).carry

\* Registers::set_flag
Registers_set_flag(regs, flag) ==
    Registers_set(regs, "F", Or(Registers_get(regs, "F"), Flags_mask(flag)))

\* Registers::reset_flag
Registers_reset_flag(regs, flag) ==
    Registers_set(regs, "F", And(Registers_get(regs, "F"), Not8(Flags_mask(flag))))

\* Registers::set_flag_to
Registers_set_flag_to(regs, flag, value) ==
    IF value THEN Registers_set_flag(regs, flag) ELSE Registers_reset_flag(regs, flag)

\* Registers::set_flags : called by Cpu::set_flags; restores the full flag
\* set, i.e. F becomes the byte of the four flags.
Registers_set_flags(regs, flags) == Registers_set(regs, "F", SetFlags_into(flags))

----------------------------------------------------------------------------
(* cpu/mod.rs : the Cpu.  Operators take the Cpu value c and return the    *)
(* Cpu after the call; a call that also returns a value returns            *)
(* [c |-> Cpu after, v |-> value].  Once c.panicked, no later call of the  *)
(* same handler has an effect.                                             *)

Cpu(regs, mem, cyc, pan) ==
    [registers |-> regs, memory |-> mem, cyclic |-> cyc, panicked |-> pan]

\* Cpu::default
Cpu_default == Cpu(Registers_default, Memory_default, 0, FALSE)

Ret(c, v) == [c |-> c, v |-> v]

\* panic!() / todo!()
panic(c) == [c EXCEPT !.panicked = TRUE]

\* u16 `x + y` and `x - y` : panic when overflow checks are on, else wrap
add_u16(c, x, y) ==
    Ret(IF x + y > 65535 /\ overflow_checks THEN panic(c) ELSE c, (x + y) % 65536)
sub_u16(c, x, y) ==
    Ret(IF x - y < 0 /\ overflow_checks THEN panic(c) ELSE c, (x - y) % 65536)

\* u8 `x + y`
add_u8(c, x, y) ==
    Ret(IF x + y > 255 /\ overflow_checks THEN panic(c) ELSE c, (x + y) % 256)

\* Cyclic::cycle : one bus transaction, 4 T-cycles
Cyclic_cycle(n) == n + 4

\* Cpu::cycle
cycle(c) == IF c.panicked THEN c ELSE [c EXCEPT !.cyclic = Cyclic_cycle(@)]

\* Cpu::get_reg / get_long_reg / get_pc
get_reg(c, reg) == Registers_get(c.registers, reg)
get_long_reg(c, reg) == Registers_get_long(c.registers, reg)
get_pc(c) == Registers_get_long(c.registers, "PC")
get_reg_a(c) == get_reg(c, "A")

\* Cpu::put_reg / put_long_reg / set_pc
put_reg(c, reg, value) ==
    IF c.panicked THEN c ELSE [c EXCEPT !.registers = Registers_set(@, reg, value)]
put_long_reg(c, reg, value) ==
    IF c.panicked THEN c ELSE [c EXCEPT !.registers = Registers_set_long(@, reg, value)]
set_pc(c, value) == put_long_reg(c, "PC", value)
put_reg_a(c, value) == put_reg(c, "A", value)

\* Cpu::get_flags / get_flag / set_flags / set_flag / reset_flag / set_flag_to
get_flags(c) == Registers_get_flags(c.registers)
get_flag(c, flag) == Registers_get_flag(c.registers, flag)
set_flags(c, flags) ==
    IF c.panicked THEN c ELSE [c EXCEPT !.registers = Registers_set_flags(@, flags)]
set_flag(c, flag) ==
    IF c.panicked THEN c ELSE [c EXCEPT !.registers = Registers_set_flag(@, flag)]
reset_flag(c, flag) ==
    IF c.panicked THEN c ELSE [c EXCEPT !.registers = Registers_reset_flag(@, flag)]
set_flag_to(c, flag, value) ==
    IF c.panicked THEN c ELSE [c EXCEPT !.registers = Registers_set_flag_to(@, flag, value)]

\* Cpu::get_memory
get_memory(c, addr) == Ret(cycle(c), Memory_get(c.memory, addr))

\* Cpu::put_memory
put_memory(c, addr, value) ==
    IF c.panicked THEN c
    ELSE [cycle(c) EXCEPT !.memory = Memory_put(@, addr, value)]

\* Cpu::current_byte
current_byte(c) == get_memory(c, get_pc(c))

\* Cpu::advance_by : wrapping_add
advance_by(c, delta) == set_pc(c, (get_pc(c) + delta) % 65536)

\* Cpu::move_by : the i16 delta reinterpreted as u16
move_by(c, delta) == advance_by(c, delta % 65536)

\* Cpu::advance
advance(c) ==
    Bind(current_byte(c), LAMBDA byte : Ret(advance_by(byte.c, 1), byte.v))

\* Cpu::get_at_hl / put_at_hl
get_at_hl(c) == get_memory(c, get_long_reg(c, "HL"))
put_at_hl(c, value) == put_memory(c, get_long_reg(c, "HL"), value)

\* Cpu::get_relative
get_relative(c, delta) ==
    Bind(add_u16(c, get_pc(c), delta), LAMBDA a : get_memory(a.c, a.v))

\* Cpu::get_long_at
get_long_at(c, addr) ==
    Bind(get_memory(c, addr), LAMBDA lsb :
    Bind(add_u16(lsb.c, addr, 1), LAMBDA a :
    Bind(get_memory(a.c, a.v), LAMBDA msb :
    Ret(msb.c, from_be_bytes(msb.v, lsb.v)))))

\* Cpu::put_long_at
put_long_at(c, addr, value) ==
    Bind(to_be_bytes(value), LAMBDA b :
    Bind(put_memory(c, addr, b.lo), LAMBDA c1 :
    Bind(add_u16(c1, addr, 1), LAMBDA a :
    put_memory(a.c, a.v, b.hi))))

\* Cpu::advance_long
advance_long(c) ==
    Bind(advance(c), LAMBDA msb :
    Bind(advance(msb.c), LAMBDA lsb :
    Ret(lsb.c, from_be_bytes(msb.v, lsb.v))))

\* Cpu::push_stack
push_stack(c, value) ==
    Bind(get_long_reg(c, "SP"), LAMBDA sp :
    Bind(sub_u16(c, sp, 2), LAMBDA addr :
    Bind(put_long_at(addr.c, addr.v, value), LAMBDA c1 :
    put_long_reg(c1, "SP", addr.v))))

\* Cpu::pop_stack
pop_stack(c) ==
    Bind(get_long_reg(c, "SP"), LAMBDA sp :
    Bind(get_long_at(c, sp), LAMBDA value :
    Bind(add_u16(value.c, sp, 2), LAMBDA a :
    Ret(put_long_reg(a.c, "SP", a.v), value.v))))

\* Cpu::enable_interrupts / disable_interrupts : todo!()
enable_interrupts(c) == panic(c)
disable_interrupts(c) == panic(c)

----------------------------------------------------------------------------
(* instructions : decoded instruction values.  One record shape for every  *)
(* variant: its family, variant name, register operand(s), immediate (or   *)
(* bit index) and condition code.                                          *)

Inst(fam, op, r, r2, n, cc) ==
    [fam |-> fam, op |-> op, r |-> r, r2 |-> r2, n |-> n, cc |-> cc]

\* Option::None
None == Inst("None", "None", "", "", 0, "")

Load(op) == Inst("Load", op, "", "", 0, "")
LoadR(op, r) == Inst("Load", op, r, "", 0, "")
LoadN(op, n) == Inst("Load", op, "", "", n, "")
Arith(op) == Inst("Arithmetic", op, "", "", 0, "")
ArithR(op, r) == Inst("Arithmetic", op, r, "", 0, "")
ArithN(op, n) == Inst("Arithmetic", op, "", "", n, "")
Misc(op) == Inst("Misc", op, "", "", 0, "")
RotateShift(op) == Inst("RotateShift", op, "", "", 0, "")
Flow(op) == Inst("ControlFlow", op, "", "", 0, "")

\* `x >> k` and `x << k` on u8
Shr(x, k) == x \div (2 ^ k)
Shl8(x, k) == (x * (2 ^ k)) % 256

\* impl From<u8> for FetchRegister : "HL" stands for FetchRegister::AddrHL
FetchRegister_from(value) ==
    LET reg == REGISTERS[value + 1] IN IF reg = "F" THEN "HL" ELSE reg

\* map_fetch_register! / FetchRegister::map
map_fetch_register(fam, reg, if_reg, if_hl) ==
    IF reg = "HL" THEN Inst(fam, if_hl, "", "", 0, "") ELSE Inst(fam, if_reg, reg, "", 0, "")

\* impl From<u8> for ControlFlowCondition
ControlFlowCondition_from(cc) ==
    CASE cc = 0 -> "NotZero"
      [] cc = 1 -> "Zero"
      [] cc = 2 -> "NoCarry"
      [] OTHER -> "Carry"

\* ControlFlowCondition::check_condition
check_condition(cc, flags) ==
    CASE cc = "NotZero" -> ~flags.zero
      [] cc = "Zero" -> flags.zero
      [] cc = "NoCarry" -> ~flags.carry
      [] cc = "Carry" -> flags.carry

----------------------------------------------------------------------------
(* instructions/load.rs : decoding                                         *)

\* LoadInstruction::fetch_load_r1_r2
fetch_load_r1_r2(opcode) ==
    LET r2 == REGISTERS[(opcode % 8) + 1]
        r1 == REGISTERS[(Shr(opcode, 3) % 8) + 1]
    IN  IF r1 = "F" /\ r2 = "F" THEN None
        ELSE IF r1 = "F" THEN LoadR("LoadIntoHLAddr", r2)
        ELSE IF r2 = "F" THEN LoadR("LoadFromHLAddr", r1)
        ELSE Inst("Load", "LoadRegister", r1, r2, 0, "")

\* LoadInstruction::fetch_load_immediate
fetch_load_immediate(opcode, n) ==
    LET r == REGISTERS[Shr(opcode, 3) + 1]
    IN  IF r = "F" THEN LoadN("LoadIntoHLAddrn", n)
        ELSE Inst("Load", "LoadImmediate", r, "", n, "")

\* LoadInstruction::fetch_long_register
fetch_long_register(opcode) ==
    LET lr == LONG_REGISTERS[And(Shr(opcode, 4), 3) + 1]
    IN  IF lr = "SP" THEN "AF" ELSE lr

\* LoadInstruction::fetch
LoadInstruction_fetch(c, opcode) ==
    IF opcode = 8 THEN
        Bind(advance_long(c), LAMBDA nn : Ret(nn.c, LoadN("LoadSPIntoAddrnn", nn.v)))
    ELSE IF opcode = 34 THEN Ret(c, Load("LoadFromAIntoAddrHLInc"))
    ELSE IF opcode = 42 THEN Ret(c, Load("LoadFromAddrHLIntoAInc"))
    ELSE IF opcode = 50 THEN Ret(c, Load("LoadFromAIntoAddrHLDec"))
    ELSE IF opcode = 58 THEN Ret(c, Load("LoadFromAddrHLIntoADec"))
    ELSE IF 64 <= opcode /\ opcode <= 127 THEN Ret(c, fetch_load_r1_r2(opcode))
    ELSE IF opcode = 224 THEN
        Bind(advance(c), LAMBDA n : Ret(n.c, LoadN("LoadFromAIntoAddrn", n.v)))
    ELSE IF opcode = 226 THEN Ret(c, Load("LoadIntoAddrCFromA"))
    ELSE IF opcode = 234 THEN
        Bind(advance_long(c), LAMBDA nn : Ret(nn.c, LoadN("LoadIntoAddrnnFromA", nn.v)))
    ELSE IF opcode = 240 THEN
        Bind(advance(c), LAMBDA n : Ret(n.c, LoadN("LoadFromAddrnIntoA", n.v)))
    ELSE IF opcode = 242 THEN Ret(c, Load("LoadFromAddrCIntoA"))
    ELSE IF opcode = 249 THEN Ret(c, Load("LoadFromHLIntoSP"))
    ELSE IF opcode = 248 THEN
        Bind(advance(c), LAMBDA byte :
            Ret(byte.c, LoadN("LoadFromSPPlusnIntoHL", i8_from_be_bytes(byte.v))))
    ELSE IF opcode = 250 THEN
        Bind(advance_long(c), LAMBDA nn : Ret(nn.c, LoadN("LoadIntoAFromAddrnn", nn.v)))
    ELSE IF And(opcode, 207) = 10 THEN
        Ret(c, LoadR("LoadIntoAFromAddr", fetch_long_register(opcode)))
    ELSE IF And(opcode, 207) = 2 THEN
        Ret(c, LoadR("LoadIntoAddrFromA", fetch_long_register(opcode)))
    ELSE IF And(opcode, 199) = 6 THEN
        Bind(advance(c), LAMBDA n : Ret(n.c, fetch_load_immediate(opcode, n.v)))
    ELSE IF And(opcode, 207) = 1 THEN
        Bind(advance_long(c), LAMBDA nn :
            Ret(nn.c, Inst("Load", "LoadImmediateLong", fetch_long_register(opcode), "", nn.v, "")))
    ELSE IF And(opcode, 207) = 197 THEN Ret(c, LoadR("Push", fetch_long_register(opcode)))
    ELSE IF And(opcode, 207) = 193 THEN Ret(c, LoadR("Pop", fetch_long_register(opcode)))
    ELSE Ret(c, None)

----------------------------------------------------------------------------
(* instructions/arithmetic.rs : decoding                                   *)

\* ArithmeticInstruction::fetch_add
fetch_add(opcode) ==
    LET reg == REGISTERS[And(opcode, 7) + 1]
        with_carry == And(opcode, 8) # 0
    IN  IF with_carry /\ reg = "F" THEN Arith("AddCarryAddrHL")
        ELSE IF reg = "F" THEN Arith("AddAddrHL")
        ELSE IF with_carry THEN ArithR("AddCarryRegister", reg)
        ELSE ArithR("AddRegister", reg)

\* ArithmeticInstruction::fetch_sub
fetch_sub(opcode) ==
    LET reg == REGISTERS[And(opcode, 7) + 1]
        with_carry == And(opcode, 8) # 0
    IN  IF with_carry /\ reg = "F" THEN Arith("SubCarryAddrHL")
        ELSE IF reg = "F" THEN Arith("SubAddrHL")
        ELSE IF with_carry THEN ArithR("SubCarryRegister", reg)
        ELSE ArithR("SubRegister", reg)

\* ArithmeticInstruction::fetch_bitwise
fetch_bitwise(opcode) ==
    LET reg == REGISTERS[And(opcode, 7) + 1]
        op == Shr(And(opcode, 24), 3)
    IN  IF reg = "F"
        THEN CASE op = 0 -> Arith("AndAddrHL")
               [] op = 1 -> Arith("XorAddrHL")
               [] op = 2 -> Arith("OrAddrHL")
               [] OTHER -> Arith("CmpAddrHL")
        ELSE CASE op = 0 -> ArithR("AndRegister", reg)
               [] op = 1 -> ArithR("XorRegister", reg)
               [] op = 2 -> ArithR("OrRegister", reg)
               [] OTHER -> ArithR("CmpRegister", reg)

\* ArithmeticInstruction::fetch_inc_dec
fetch_inc_dec(opcode) ==
    LET dec == And(opcode, 1) = 1
        reg == REGISTERS[Shr(And(opcode, 28), 2) + 1]
    IN  IF dec /\ reg = "F" THEN Arith("DecAddrHL")
        ELSE IF reg = "F" THEN Arith("IncAddrHL")
        ELSE IF dec THEN ArithR("DecRegister", reg)
        ELSE ArithR("IncRegister", reg)

\* ArithmeticInstruction::fetch_inc_dec_long
fetch_inc_dec_long(opcode) ==
    LET dec == And(opcode, 8) # 0
        reg == LONG_REGISTERS[Shr(And(opcode, 48), 4) + 1]
    IN  IF dec THEN ArithR("DecLongRegister", reg) ELSE ArithR("IncLongRegister", reg)

\* ArithmeticInstruction::fetch_add_hl_long
fetch_add_hl_long(opcode) == ArithR("AddHL", LONG_REGISTERS[Shr(And(opcode, 48), 4) + 1])

\* the arms of ArithmeticInstruction::fetch that read an immediate
ArithImmediate(c, op) == Bind(advance(c), LAMBDA n : Ret(n.c, ArithN(op, n.v)))

\* ArithmeticInstruction::fetch
ArithmeticInstruction_fetch(c, opcode) ==
    IF 128 <= opcode /\ opcode <= 143 THEN Ret(c, fetch_add(opcode))
    ELSE IF 144 <= opcode /\ opcode <= 159 THEN Ret(c, fetch_sub(opcode))
    ELSE IF opcode = 198 THEN ArithImmediate(c, "AddImmediate")
    ELSE IF opcode = 206 THEN ArithImmediate(c, "AddCarryImmediate")
    ELSE IF opcode = 214 THEN ArithImmediate(c, "SubImmediate")
    ELSE IF opcode = 222 THEN ArithImmediate(c, "SubCarryImmediate")
    ELSE IF opcode = 230 THEN ArithImmediate(c, "AndImmediate")
    ELSE IF opcode = 232 THEN ArithImmediate(c, "AddSPImmediate")
    ELSE IF opcode = 238 THEN ArithImmediate(c, "XorImmediate")
    ELSE IF opcode = 246 THEN ArithImmediate(c, "OrImmediate")
    ELSE IF opcode = 254 THEN ArithImmediate(c, "CmpImmediate")
    ELSE IF 160 <= opcode /\ opcode <= 191 THEN Ret(c, fetch_bitwise(opcode))
    ELSE IF And(opcode, 198) = 4 THEN Ret(c, fetch_inc_dec(opcode))
    ELSE IF And(opcode, 199) = 3 THEN Ret(c, fetch_inc_dec_long(opcode))
    ELSE IF And(opcode, 207) = 9 THEN Ret(c, fetch_add_hl_long(opcode))
    ELSE Ret(c, None)

----------------------------------------------------------------------------
(* instructions/miscellaneous.rs, rotate_shift.rs, bit.rs, control_flow.rs *)
(* : decoding                                                              *)

\* MiscInstruction::fetch_prefixed
MiscInstruction_fetch_prefixed(opcode_id, reg) ==
    IF opcode_id = 48 THEN map_fetch_register("Misc", reg, "SwapRegister", "SwapAddrHL")
    ELSE None

\* MiscInstruction::fetch : the guard of the 0x10 arm calls cpu.advance()
MiscInstruction_fetch_UnknownAsNop(c, opcode) ==
    IF opcode = 39 THEN Ret(c, Misc("DecimalAdjustA"))
    ELSE IF opcode = 47 THEN Ret(c, Misc("ComplementA"))
    ELSE IF opcode = 63 THEN Ret(c, Misc("ComplementCarry"))
    ELSE IF opcode = 55 THEN Ret(c, Misc("SetCarry"))
    ELSE IF opcode = 118 THEN Ret(c, Misc("Halt"))
    ELSE IF opcode = 16 THEN
        Bind(advance(c), LAMBDA b :
            IF b.v = 0 THEN Ret(b.c, Misc("Stop")) ELSE Ret(b.c, None))
    ELSE IF opcode = 243 THEN Ret(c, Misc("DisableInterrupt"))
    ELSE IF opcode = 251 THEN Ret(c, Misc("EnableInterrupt"))
    ELSE Ret(c, Misc("Nop"))

MiscInstruction_fetch(c, opcode) ==
    IF opcode = 39 THEN Ret(c, Misc("DecimalAdjustA"))
    ELSE IF opcode = 47 THEN Ret(c, Misc("ComplementA"))
    ELSE IF opcode = 63 THEN Ret(c, Misc("ComplementCarry"))
    ELSE IF opcode = 55 THEN Ret(c, Misc("SetCarry"))
    ELSE IF opcode = 0 THEN Ret(c, Misc("Nop"))
    ELSE IF opcode = 118 THEN Ret(c, Misc("Halt"))
    ELSE IF opcode = 16 THEN
        Bind(advance(c), LAMBDA b :
            IF b.v = 0 THEN Ret(b.c, Misc("Stop")) ELSE Ret(b.c, None))
    ELSE IF opcode = 243 THEN Ret(c, Misc("DisableInterrupt"))
    ELSE IF opcode = 251 THEN Ret(c, Misc("EnableInterrupt"))
    ELSE Ret(c, None)

\* RotateShiftInstruction::fetch_prefixed
RotateShiftInstruction_fetch_prefixed(opcode_id, reg) ==
    CASE opcode_id = 0 ->
            map_fetch_register("RotateShift", reg, "RotateLeftCarryRegister", "RotateLeftCarryAddrHL")
      [] opcode_id = 16 ->
            map_fetch_register("RotateShift", reg, "RotateLeftRegister", "RotateLeftAddrHL")
      [] opcode_id = 8 ->
            map_fetch_register("RotateShift", reg, "RotateRightCarryRegister", "RotateRightCarryAddrHL")
      [] opcode_id = 24 ->
            map_fetch_register("RotateShift", reg, "RotateRightRegister", "RotateRightAddrHL")
      [] opcode_id = 32 ->
            map_fetch_register("RotateShift", reg, "ShiftLeftRegister", "ShiftLeftAddrHL")
      [] opcode_id = 40 ->
            map_fetch_register("RotateShift", reg, "ShiftRightRegisterSigned", "ShiftRightAddrHLSigned")
      [] opcode_id = 56 ->
            map_fetch_register("RotateShift", reg, "ShiftRightRegister", "ShiftRightAddrHL")
      [] OTHER -> None

\* RotateShiftInstruction::fetch
RotateShiftInstruction_fetch(opcode) ==
    CASE opcode = 7 -> RotateShift("RotateLeftCarryA")
      [] opcode = 23 -> RotateShift("RotateLeftA")
      [] opcode = 15 -> RotateShift("RotateRightCarryA")
      [] opcode = 31 -> RotateShift("RotateRightA")
      [] OTHER -> None

\* impl From<u8> for TargetBit : the bit index 0..7
TargetBit_from_TwoBits(bit) == bit % 4

TargetBit_from(bit) == bit % 8

\* TargetBit::get_mask
get_mask(bit) == 2 ^ bit

\* BitInstruction::fetch_prefixed
BitInstruction_fetch_prefixed(opcode_id, reg) ==
    LET bit == TargetBit_from(Shr(opcode_id, 3))
        sel == And(opcode_id, 199)
        mk(if_reg, if_hl) ==
            IF reg = "HL" THEN Inst("Bit", if_hl, "", "", bit, "")
            ELSE Inst("Bit", if_reg, reg, "", bit, "")
    IN  CASE sel = 64 -> mk("BitRegister", "BitAddrHL")
          [] sel = 128 -> mk("ResRegister", "ResAddrHL")
          [] sel = 192 -> mk("SetRegister", "SetAddrHL")
          [] OTHER -> None

\* ControlFlowInstruction::fetch
ControlFlowInstruction_fetch(c, opcode) ==
    LET cc == ControlFlowCondition_from(Shr(And(opcode, 24), 3))
        long(op, cond) ==
            Bind(advance_long(c), LAMBDA nn :
                Ret(nn.c, Inst("ControlFlow", op, "", "", nn.v, cond)))
        rel(op, cond) ==
            Bind(advance(c), LAMBDA e :
                Ret(e.c, Inst("ControlFlow", op, "", "", i8_from_be_bytes(e.v), cond)))
    IN  IF opcode = 195 THEN long("JumpImmediate", "")
        ELSE IF And(opcode, 231) = 194 THEN long("JumpImmediateCondition", cc)
        ELSE IF opcode = 233 THEN Ret(c, Flow("JumpAddrHL"))
        ELSE IF opcode = 24 THEN rel("JumpImmediateRelative", "")
        ELSE IF And(opcode, 231) = 32 THEN rel("JumpRelativeCondition", cc)
        ELSE IF opcode = 205 THEN long("CallImmediate", "")
        ELSE IF And(opcode, 231) = 196 THEN long("CallImmediateCondition", cc)
        ELSE IF And(opcode, 199) = 199 THEN
            Ret(c, Inst("ControlFlow", "Reset", "", "", And(opcode, 56), ""))
        ELSE IF opcode = 201 THEN Ret(c, Flow("Return"))
        ELSE IF And(opcode, 231) = 192 THEN
            Ret(c, Inst("ControlFlow", "ReturnCondition", "", "", 0, cc))
        ELSE IF opcode = 217 THEN Ret(c, Flow("ReturnEnableInterrupt"))
        ELSE Ret(c, None)

----------------------------------------------------------------------------
(* instructions/mod.rs : Instruction::fetch                                *)

\* Instruction::fetch : Option<Instruction> and the Cpu after the decode
Instruction_fetch(c) ==
    Bind(current_byte(c), LAMBDA opcode :
    IF opcode.v = 203 THEN
        Bind(get_relative(opcode.c, 1), LAMBDA op2 :
        Bind(FetchRegister_from(And(op2.v, 7)), LAMBDA reg :
        Bind(And(op2.v, 248), LAMBDA opcode_id :
        Bind(MiscInstruction_fetch_prefixed(opcode_id, reg), LAMBDA m :
        Bind(RotateShiftInstruction_fetch_prefixed(opcode_id, reg), LAMBDA r :
            IF op2.c.panicked THEN Ret(op2.c, None)
            ELSE IF m # None THEN Ret(op2.c, m)
            ELSE IF r # None THEN Ret(op2.c, r)
            ELSE Ret(op2.c, BitInstruction_fetch_prefixed(opcode_id, reg)))))))
    ELSE
        Bind(LoadInstruction_fetch(opcode.c, opcode.v), LAMBDA l :
        IF l.v # None \/ l.c.panicked THEN l ELSE
        Bind(ArithmeticInstruction_fetch(l.c, opcode.v), LAMBDA a :
        IF a.v # None \/ a.c.panicked THEN a ELSE
        Bind(MiscInstruction_fetch(a.c, opcode.v), LAMBDA m :
        IF m.v # None \/ m.c.panicked THEN m ELSE
        Bind(RotateShiftInstruction_fetch(opcode.v), LAMBDA r :
        IF r # None THEN Ret(m.c, r) ELSE
        ControlFlowInstruction_fetch(m.c, opcode.v))))))

----------------------------------------------------------------------------
(* instructions/load.rs : execution                                        *)

Ret3(c, v, flags) == [c |-> c, v |-> v, flags |-> flags]

\* LoadInstruction::add_delta_to_addr : delta is the signed i8; delta.abs()
\* overflows for -128 (panic with overflow checks, else it stays -128,
\* whose byte is 0x80)
add_delta_to_addr(c, addr, delta) ==
    LET neg == delta < 0
        delta_byte == delta % 256
        c0 == IF delta = -128 /\ overflow_checks THEN panic(c) ELSE c
        abs == IF neg THEN 0 - delta ELSE delta
    IN  Bind(IF neg THEN sub_u16(c0, addr, abs) ELSE add_u16(c0, addr, abs), LAMBDA result :
        Bind(Xor(Xor(addr, delta_byte), result.v), LAMBDA x :
        Ret3(result.c, result.v,
             SetFlags(FALSE, FALSE, And(x, 16) = 16, And(x, 256) = 256))))

\* LoadInstruction::execute, arm Pop
ExecPop(c, long_reg) ==
    Bind(pop_stack(c), LAMBDA value : put_long_reg(value.c, long_reg, value.v))

\* LoadInstruction::execute, arm Push
ExecPush(c, long_reg) ==
    Bind(cycle(c), LAMBDA c1 : push_stack(c1, get_long_reg(c1, long_reg)))

\* LoadInstruction::execute, the arms LDD / LDI
ExecLoadHLStep(c, toA, inc) ==
    Bind(get_long_reg(c, "HL"), LAMBDA addr :
    Bind(IF toA
         THEN Bind(get_memory(c, addr), LAMBDA value : put_reg_a(value.c, value.v))
         ELSE put_memory(c, addr, get_reg_a(c)), LAMBDA c1 :
    Bind(IF inc THEN add_u16(c1, addr, 1) ELSE sub_u16(c1, addr, 1), LAMBDA next :
    put_long_reg(next.c, "HL", next.v))))

\* LoadInstruction::execute
LoadInstruction_execute(i, c) ==
    CASE i.op = "LoadImmediate" -> put_reg(c, i.r, i.n)
      [] i.op = "LoadRegister" -> put_reg(c, i.r, get_reg(c, i.r2))
      [] i.op = "LoadFromHLAddr" ->
            Bind(get_at_hl(c), LAMBDA value : put_reg(value.c, i.r, value.v))
      [] i.op = "LoadIntoHLAddr" -> put_at_hl(c, get_reg(c, i.r))
      [] i.op = "LoadIntoHLAddrn" -> put_at_hl(c, i.n)
      [] i.op = "LoadIntoAFromAddr" ->
            Bind(get_memory(c, get_long_reg(c, i.r)), LAMBDA value :
                put_reg(value.c, "A", value.v))
      [] i.op = "LoadIntoAFromAddrnn" ->
            Bind(get_memory(c, i.n), LAMBDA value : put_reg(value.c, "A", value.v))
      [] i.op = "LoadIntoAddrFromA" -> put_memory(c, get_long_reg(c, i.r), get_reg_a(c))
      [] i.op = "LoadIntoAddrnnFromA" -> put_memory(c, i.n, get_reg_a(c))
      [] i.op = "LoadFromAddrCIntoA" ->
            Bind(get_memory(c, from_be_bytes(255, get_reg(c, "C"))), LAMBDA value :
                put_reg_a(value.c, value.v))
      [] i.op = "LoadIntoAddrCFromA" ->
            put_memory(c, from_be_bytes(255, get_reg(c, "C")), get_reg_a(c))
      [] i.op = "LoadFromAddrHLIntoADec" -> ExecLoadHLStep(c, TRUE, FALSE)
      [] i.op = "LoadFromAIntoAddrHLDec" -> ExecLoadHLStep(c, FALSE, FALSE)
      [] i.op = "LoadFromAddrHLIntoAInc" -> ExecLoadHLStep(c, TRUE, TRUE)
      [] i.op = "LoadFromAIntoAddrHLInc" -> ExecLoadHLStep(c, FALSE, TRUE)
      [] i.op = "LoadFromAIntoAddrn" -> put_memory(c, from_be_bytes(255, i.n), get_reg_a(c))
      [] i.op = "LoadFromAddrnIntoA" ->
            Bind(get_memory(c, from_be_bytes(255, i.n)), LAMBDA value :
                put_reg_a(value.c, value.v))
      [] i.op = "LoadImmediateLong" -> put_long_reg(c, i.r, i.n)
      [] i.op = "LoadFromHLIntoSP" ->
            Bind(cycle(c), LAMBDA c1 : put_long_reg(c1, "SP", get_long_reg(c1, "HL")))
      [] i.op = "LoadFromSPPlusnIntoHL" ->
            Bind(add_delta_to_addr(c, get_long_reg(c, "SP"), i.n), LAMBDA r :
                put_long_reg(set_flags(r.c, r.flags), "HL", r.v))
      [] i.op = "LoadSPIntoAddrnn" -> put_long_at(c, i.n, get_long_reg(c, "SP"))
      [] i.op = "Push" -> ExecPush(c, i.r)
      [] i.op = "Pop" -> ExecPop(c, i.r)

----------------------------------------------------------------------------
(* instructions/arithmetic.rs : execution                                  *)

\* ArithmeticInstruction::add : `a & 0x0F + b & 0x0F > 0x0F` parses as
\* `((a & (0x0F + b)) & 0x0F) > 0x0F`, and `0x0F + b` is a u8 addition
add(c, a, b) ==
    Bind(add_u8(c, 15, b), LAMBDA s :
    LET half_carry == And(And(a, s.v), 15) > 15
        value == (a + b) % 256
        carry == a + b > 255
    IN  Ret3(s.c, value, SetFlags(value = 0, FALSE, half_carry, carry)))

\* ArithmeticInstruction::add_carry
add_carry(c, a, b, carry) ==
    IF carry THEN
        IF a = 255 /\ b = 255 THEN Ret3(c, 255, SetFlags(FALSE, FALSE, TRUE, TRUE))
        ELSE IF a = 255 THEN Bind(add_u8(c, b, 1), LAMBDA x : add(x.c, x.v, 255))
        ELSE IF b = 255 THEN Bind(add_u8(c, a, 1), LAMBDA x : add(x.c, x.v, 255))
        ELSE Bind(add_u8(c, a, 1), LAMBDA x : add(x.c, x.v, b))
    ELSE add(c, a, b)

\* ArithmeticInstruction::sub / sub_carry : todo!()
sub(c, a, b) == Ret3(panic(c), 0, SetFlags_default)
sub_carry(c, a, b, carry) == Ret3(panic(c), 0, SetFlags_default)

\* ArithmeticInstruction::inc
inc(c, a, carry) ==
    Bind(add(c, a, 1), LAMBDA r : Ret3(r.c, r.v, [r.flags EXCEPT !.carry = carry]))

\* ArithmeticInstruction::dec
dec(c, a, carry) ==
    Bind(sub(c, a, 1), LAMBDA r : Ret3(r.c, r.v, [r.flags EXCEPT !.carry = carry]))

\* ArithmeticInstruction::execute, arm AddImmediate
ExecAddImmediate(c, n) ==
    Bind(add(c, get_reg_a(c), n), LAMBDA r : put_reg_a(set_flags(r.c, r.flags), r.v))

\* ArithmeticInstruction::execute, arm SubImmediate
ExecSubImmediate(c, n) ==
    Bind(sub(c, get_reg_a(c), n), LAMBDA r : put_reg_a(set_flags(r.c, r.flags), r.v))

\* ArithmeticInstruction::execute, arm AddCarryImmediate
ExecAddCarryImmediate(c, n) ==
    Bind(add_carry(c, get_reg_a(c), n, get_flag(c, "Carry")), LAMBDA r :
        put_reg_a(set_flags(r.c, r.flags), r.v))

\* ArithmeticInstruction::execute, arm SubCarryImmediate
ExecSubCarryImmediate(c, n) ==
    Bind(sub_carry(c, get_reg_a(c), n, get_flag(c, "Carry")), LAMBDA r :
        put_reg_a(set_flags(r.c, r.flags), r.v))

\* ArithmeticInstruction::execute, arms AndImmediate / OrImmediate / XorImmediate
ExecBitwiseImmediate(c, op, n) ==
    Bind(get_reg_a(c), LAMBDA a :
    Bind(CASE op = "And" -> And(a, n) [] op = "Or" -> Or(a, n) [] op = "Xor" -> Xor(a, n),
         LAMBDA result :
    set_flags(put_reg_a(c, result), SetFlags(result = 0, FALSE, op = "And", FALSE))))

\* ArithmeticInstruction::execute, arm CmpImmediate
ExecCmpImmediate(c, n) ==
    Bind(sub(c, get_reg_a(c), n), LAMBDA r : set_flags(r.c, r.flags))

\* ArithmeticInstruction::execute, arms IncRegister / IncAddrHL / DecRegister / DecAddrHL
ExecIncDec(c, i, isDec, atHL) ==
    Bind(IF atHL THEN get_at_hl(c) ELSE Ret(c, get_reg(c, i.r)), LAMBDA value :
    Bind(get_flag(value.c, "Carry"), LAMBDA carry :
    Bind(IF isDec THEN dec(value.c, value.v, carry) ELSE inc(value.c, value.v, carry),
         LAMBDA r :
    Bind(set_flags(r.c, r.flags), LAMBDA c1 :
    IF atHL THEN put_at_hl(c1, r.v) ELSE put_reg(c1, i.r, r.v)))))

\* ArithmeticInstruction::execute, arms IncLongRegister / DecLongRegister :
\* add_assign / sub_assign act on the u16 that get_long_reg returned by value
ExecIncDecLong(c, reg, isDec) ==
    IF isDec THEN sub_u16(c, get_long_reg(c, reg), 1).c
    ELSE add_u16(c, get_long_reg(c, reg), 1).c

\* ArithmeticInstruction::execute
ArithmeticInstruction_execute(i, c) ==
    CASE i.op = "AddImmediate" -> ExecAddImmediate(c, i.n)
      [] i.op = "AddRegister" -> ExecAddImmediate(c, get_reg(c, i.r))
      [] i.op = "AddAddrHL" -> Bind(get_at_hl(c), LAMBDA n : ExecAddImmediate(n.c, n.v))
      [] i.op = "SubImmediate" -> ExecSubImmediate(c, i.n)
      [] i.op = "SubRegister" -> ExecSubImmediate(c, get_reg(c, i.r))
      [] i.op = "SubAddrHL" -> Bind(get_at_hl(c), LAMBDA n : ExecSubImmediate(n.c, n.v))
      [] i.op = "AddCarryImmediate" -> ExecAddCarryImmediate(c, i.n)
      [] i.op = "AddCarryRegister" -> ExecAddCarryImmediate(c, get_reg(c, i.r))
      [] i.op = "AddCarryAddrHL" -> Bind(get_at_hl(c), LAMBDA n : ExecAddCarryImmediate(n.c, n.v))
      [] i.op = "SubCarryImmediate" -> ExecSubCarryImmediate(c, i.n)
      [] i.op = "SubCarryRegister" -> ExecSubCarryImmediate(c, get_reg(c, i.r))
      [] i.op = "SubCarryAddrHL" -> Bind(get_at_hl(c), LAMBDA n : ExecSubCarryImmediate(n.c, n.v))
      [] i.op = "AndImmediate" -> ExecBitwiseImmediate(c, "And", i.n)
      [] i.op = "AndRegister" -> ExecBitwiseImmediate(c, "And", get_reg(c, i.r))
      [] i.op = "AndAddrHL" -> Bind(get_at_hl(c), LAMBDA n : ExecBitwiseImmediate(n.c, "And", n.v))
      [] i.op = "OrImmediate" -> ExecBitwiseImmediate(c, "Or", i.n)
      [] i.op = "OrRegister" -> ExecBitwiseImmediate(c, "Or", get_reg(c, i.r))
      [] i.op = "OrAddrHL" -> Bind(get_at_hl(c), LAMBDA n : ExecBitwiseImmediate(n.c, "Or", n.v))
      [] i.op = "XorImmediate" -> ExecBitwiseImmediate(c, "Xor", i.n)
      [] i.op = "XorRegister" -> ExecBitwiseImmediate(c, "Xor", get_reg(c, i.r))
      [] i.op = "XorAddrHL" -> Bind(get_at_hl(c), LAMBDA n : ExecBitwiseImmediate(n.c, "Xor", n.v))
      [] i.op = "CmpImmediate" -> ExecCmpImmediate(c, i.n)
      [] i.op = "CmpRegister" -> ExecCmpImmediate(c, get_reg(c, i.r))
      [] i.op = "CmpAddrHL" -> Bind(get_at_hl(c), LAMBDA n : ExecCmpImmediate(n.c, n.v))
      [] i.op = "IncRegister" -> ExecIncDec(c, i, FALSE, FALSE)
      [] i.op = "IncAddrHL" -> ExecIncDec(c, i, FALSE, TRUE)
      [] i.op = "DecRegister" -> ExecIncDec(c, i, TRUE, FALSE)
      [] i.op = "DecAddrHL" -> ExecIncDec(c, i, TRUE, TRUE)
      [] i.op = "AddHL" -> panic(c)
      [] i.op = "AddSPImmediate" -> panic(c)
      [] i.op = "IncLongRegister" -> ExecIncDecLong(c, i.r, FALSE)
      [] i.op = "DecLongRegister" -> ExecIncDecLong(c, i.r, TRUE)

----------------------------------------------------------------------------
(* instructions/miscellaneous.rs : execution                               *)

\* MiscInstruction::swap
swap(value) == Or(Shl8(And(value, 15), 4), Shr(And(value, 240), 4))

\* MiscInstruction::execute
MiscInstruction_execute(i, c) ==
    CASE i.op = "SwapRegister" ->
            Bind(cycle(c), LAMBDA c1 : put_reg(c1, i.r, swap(get_reg(c1, i.r))))
      [] i.op = "SwapAddrHL" ->
            Bind(get_at_hl(cycle(c)), LAMBDA value : put_at_hl(value.c, swap(value.v)))
      [] i.op = "DecimalAdjustA" -> panic(c)
      [] i.op = "ComplementA" -> put_reg_a(c, Not8(get_reg_a(c)))
      [] i.op = "ComplementCarry" -> set_flag_to(c, "Carry", ~get_flag(c, "Carry"))
      [] i.op = "SetCarry" -> set_flag(c, "Carry")
      [] i.op = "Nop" -> c
      [] i.op = "Halt" -> panic(c)
      [] i.op = "Stop" -> panic(c)
      [] i.op = "DisableInterrupt" -> disable_interrupts(c)
      [] i.op = "EnableInterrupt" -> enable_interrupts(c)

----------------------------------------------------------------------------
(* instructions/rotate_shift.rs : execution                                *)

\* RotateShiftInstruction::rotate_carry
rotate_carry(n, left) ==
    LET carry == IF left THEN And(n, 128) # 0 ELSE And(n, 1) # 0
        value == IF left THEN Or(Shl8(n, 1), Shr(n, 7)) ELSE Or(Shr(n, 1), Shl8(n, 7))
    IN  [v |-> value, flags |-> SetFlags(value = 0, FALSE, FALSE, carry)]

\* RotateShiftInstruction::rotate
rotate_CarryIntoBit0(n, old_carry, left) ==
    LET carry_bit == IF old_carry THEN 1 ELSE 0
        carry == IF left THEN And(n, 128) # 0 ELSE And(n, 1) # 0
        shifted == IF left THEN Shl8(n, 1) ELSE Shr(n, 1)
        value == Or(shifted, carry_bit)
    IN  [v |-> value, flags |-> SetFlags(value = 0, FALSE, FALSE, carry)]

rotate(n, old_carry, left) ==
    LET carry_bit == IF old_carry THEN (IF left THEN 1 ELSE 128) ELSE 0
        carry == IF left THEN And(n, 128) # 0 ELSE And(n, 1) # 0
        shifted == IF left THEN Shl8(n, 1) ELSE Shr(n, 1)
        value == Or(shifted, carry_bit)
    IN  [v |-> value, flags |-> SetFlags(value = 0, FALSE, FALSE, carry)]

\* RotateShiftInstruction::shift
shift_Logical(n, signed, left) ==
    LET carry == IF left THEN And(n, 128) # 0 ELSE And(n, 1) # 0
        value == IF left THEN Shl8(n, 1) ELSE Shr(n, 1)
    IN  [v |-> value, flags |-> SetFlags(value = 0, FALSE, FALSE, carry)]

shift(n, signed, left) ==
    LET carry == IF left THEN And(n, 128) # 0 ELSE And(n, 1) # 0
        value == IF left THEN Shl8(n, 1)
                 ELSE IF signed THEN Or(Shr(n, 1), And(n, 128))
                 ELSE Shr(n, 1)
    IN  [v |-> value, flags |-> SetFlags(value = 0, FALSE, FALSE, carry)]

\* the result of the rotate / shift variant `kind` on byte n with carry cy
RotateShiftResult(kind, n, cy) ==
    CASE kind = "RotateLeftCarry" -> rotate_carry(n, TRUE)
      [] kind = "RotateLeft" -> rotate(n, cy, TRUE)
      [] kind = "RotateRightCarry" -> rotate_carry(n, FALSE)
      [] kind = "RotateRight" -> rotate(n, cy, FALSE)
      [] kind = "ShiftLeft" -> shift(n, FALSE, TRUE)
      [] kind = "ShiftRightSigned" -> shift(n, TRUE, FALSE)
      [] kind = "ShiftRight" -> shift(n, FALSE, FALSE)

\* RotateShiftInstruction::execute, a register arm
ExecRotateShiftRegister(c, kind, reg) ==
    Bind(RotateShiftResult(kind, get_reg(c, reg), get_flag(c, "Carry")), LAMBDA r :
        set_flags(put_reg(c, reg, r.v), r.flags))

\* RotateShiftInstruction::execute, an (HL) arm
ExecRotateShiftAddrHL(c, kind) ==
    Bind(get_at_hl(c), LAMBDA value :
    Bind(RotateShiftResult(kind, value.v, get_flag(value.c, "Carry")), LAMBDA r :
        set_flags(put_at_hl(value.c, r.v), r.flags)))

\* RotateShiftInstruction::execute
RotateShiftInstruction_execute(i, c) ==
    CASE i.op = "RotateLeftCarryA" -> ExecRotateShiftRegister(c, "RotateLeftCarry", "A")
      [] i.op = "RotateLeftA" -> ExecRotateShiftRegister(c, "RotateLeft", "A")
      [] i.op = "RotateRightCarryA" -> ExecRotateShiftRegister(c, "RotateRightCarry", "A")
      [] i.op = "RotateRightA" -> ExecRotateShiftRegister(c, "RotateRight", "A")
      [] i.op = "RotateLeftCarryRegister" -> ExecRotateShiftRegister(c, "RotateLeftCarry", i.r)
      [] i.op = "RotateLeftCarryAddrHL" -> ExecRotateShiftAddrHL(c, "RotateLeftCarry")
      [] i.op = "RotateLeftRegister" -> ExecRotateShiftRegister(c, "RotateLeft", i.r)
      [] i.op = "RotateLeftAddrHL" -> ExecRotateShiftAddrHL(c, "RotateLeft")
      [] i.op = "RotateRightCarryRegister" -> ExecRotateShiftRegister(c, "RotateRightCarry", i.r)
      [] i.op = "RotateRightCarryAddrHL" -> ExecRotateShiftAddrHL(c, "RotateRightCarry")
      [] i.op = "RotateRightRegister" -> ExecRotateShiftRegister(c, "RotateRight", i.r)
      [] i.op = "RotateRightAddrHL" -> ExecRotateShiftAddrHL(c, "RotateRight")
      [] i.op = "ShiftLeftRegister" -> ExecRotateShiftRegister(c, "ShiftLeft", i.r)
      [] i.op = "ShiftLeftAddrHL" -> ExecRotateShiftAddrHL(c, "ShiftLeft")
      [] i.op = "ShiftRightRegisterSigned" -> ExecRotateShiftRegister(c, "ShiftRightSigned", i.r)
      [] i.op = "ShiftRightAddrHLSigned" -> ExecRotateShiftAddrHL(c, "ShiftRightSigned")
      [] i.op = "ShiftRightRegister" -> ExecRotateShiftRegister(c, "ShiftRight", i.r)
      [] i.op = "ShiftRightAddrHL" -> ExecRotateShiftAddrHL(c, "ShiftRight")

----------------------------------------------------------------------------
(* instructions/bit.rs : execution                                         *)

\* BitInstruction::test_bit
test_bit_ClearsCarry(byte, target_bit, carry) ==
    SetFlags(And(byte, get_mask(target_bit)) = 0, FALSE, TRUE, FALSE)

test_bit(byte, target_bit, carry) ==
    SetFlags(And(byte, get_mask(target_bit)) = 0, FALSE, TRUE, carry)

\* BitInstruction::execute
BitInstruction_execute(i, c) ==
    Bind(cycle(c), LAMBDA c1 :
    Bind(get_mask(i.n), LAMBDA mask :
        CASE i.op = "BitRegister" ->
                set_flags(c1, test_bit(get_reg(c1, i.r), i.n, get_flag(c1, "Carry")))
          [] i.op = "BitAddrHL" ->
                Bind(get_at_hl(c1), LAMBDA value :
                    set_flags(value.c, test_bit(value.v, i.n, get_flag(value.c, "Carry"))))
          [] i.op = "SetRegister" -> put_reg(c1, i.r, Or(get_reg(c1, i.r), mask))
          [] i.op = "SetAddrHL" ->
                Bind(get_at_hl(c1), LAMBDA value : put_at_hl(value.c, Or(value.v, mask)))
          [] i.op = "ResRegister" -> put_reg(c1, i.r, And(get_reg(c1, i.r), Not8(mask)))
          [] i.op = "ResAddrHL" ->
                Bind(get_at_hl(c1), LAMBDA value :
                    put_at_hl(value.c, And(value.v, Not8(mask))))))

----------------------------------------------------------------------------
(* instructions/control_flow.rs : execution                                *)

\* ControlFlowInstruction::execute, arm JumpImmediate
ExecJumpImmediate(c, addr) == cycle(set_pc(c, addr))

\* ControlFlowInstruction::execute, arm JumpImmediateRelative
ExecJumpImmediateRelative(c, delta) == cycle(move_by(c, delta))

\* ControlFlowInstruction::execute, arm CallImmediate
ExecCallImmediate(c, addr) ==
    Bind(cycle(c), LAMBDA c1 : set_pc(push_stack(c1, get_pc(c1)), addr))

\* ControlFlowInstruction::execute, arm Return
ExecReturn(c) == Bind(pop_stack(c), LAMBDA addr : ExecJumpImmediate(addr.c, addr.v))

\* ControlFlowInstruction::exec_cc : whether the branch is taken
exec_cc(cc, c) == check_condition(cc, get_flags(c))

\* ControlFlowInstruction::execute
ControlFlowInstruction_execute(i, c) ==
    CASE i.op = "JumpImmediate" -> ExecJumpImmediate(c, i.n)
      [] i.op = "JumpImmediateCondition" ->
            IF exec_cc(i.cc, c) THEN ExecJumpImmediate(c, i.n) ELSE c
      [] i.op = "JumpAddrHL" -> set_pc(c, get_long_reg(c, "HL"))
      [] i.op = "JumpImmediateRelative" -> ExecJumpImmediateRelative(c, i.n)
      [] i.op = "JumpRelativeCondition" ->
            IF exec_cc(i.cc, c) THEN ExecJumpImmediateRelative(c, i.n) ELSE c
      [] i.op = "CallImmediate" -> ExecCallImmediate(c, i.n)
      [] i.op = "CallImmediateCondition" ->
            IF exec_cc(i.cc, c) THEN ExecCallImmediate(c, i.n) ELSE c
      [] i.op = "Reset" -> ExecCallImmediate(c, i.n)
      [] i.op = "Return" -> ExecReturn(c)
      [] i.op = "ReturnCondition" ->
            IF exec_cc(i.cc, c) THEN ExecReturn(c) ELSE cycle(c)
      [] i.op = "ReturnEnableInterrupt" -> enable_interrupts(ExecReturn(c))

----------------------------------------------------------------------------
(* instructions/mod.rs : Instruction::execute                              *)

Instruction_execute(i, c) ==
    CASE i.fam = "Load" -> LoadInstruction_execute(i, c)
      [] i.fam = "Arithmetic" -> ArithmeticInstruction_execute(i, c)
      [] i.fam = "Misc" -> MiscInstruction_execute(i, c)
      [] i.fam = "RotateShift" -> RotateShiftInstruction_execute(i, c)
      [] i.fam = "Bit" -> BitInstruction_execute(i, c)
      [] i.fam = "ControlFlow" -> ControlFlowInstruction_execute(i, c)

----------------------------------------------------------------------------
(* The program image and the bounded inputs                                *)

MaxBusCycles == 8     \* SpecMem: bus transactions stop at this many cycles
MaxSteps == 2         \* Spec: instructions stepped per behaviour
MaxRunSteps == 6      \* SpecRun: instructions stepped per behaviour
MaxRotSteps == 2      \* SpecRot: instructions stepped per behaviour
MaxRegSteps == 3      \* SpecReg: register writes per behaviour

\* `bytes` laid out from address `base`
At(base, bytes) == [a \in base..(base + Len(bytes) - 1) |-> bytes[a - base + 1]]

\* The cartridge bytes the frontend loads before dispatch.
RomBytes ==
       At(0,    <<241>>)                                   \* 0x0000 POP AF
    @@ At(256,  <<62, 1, 6, 1, 128, 71, 120, 195, 6, 1>>)  \* 0x0100 LD A,1; LD B,1; ADD A,B; LD B,A; LD A,B; JP 0x0106
    @@ At(512,  <<40, 5>>)                                 \* 0x0200 JR Z,+5
    @@ At(768,  <<197, 213, 229, 245>>)                    \* 0x0300 PUSH BC / DE / HL / AF
    @@ At(772,  <<193, 209, 225, 241>>)                    \* 0x0304 POP BC / DE / HL / AF
    @@ At(784,  <<1, 52, 18>>)                             \* 0x0310 LD BC,0x1234
    @@ At(788,  <<49, 254, 255>>)                          \* 0x0314 LD SP,0xFFFE
    @@ At(792,  <<198, 1, 206, 1, 136, 134, 142>>)         \* 0x0318 ADD A,1; ADC A,1; ADC A,B; ADD A,(HL); ADC A,(HL)
    @@ At(800,  <<224, 128, 240, 128>>)                    \* 0x0320 LDH (0x80),A; LDH A,(0x80)
    @@ At(804,  <<234, 0, 193>>)                           \* 0x0324 LD (0xC100),A
    @@ At(808,  <<250, 0, 193>>)                           \* 0x0328 LD A,(0xC100)
    @@ At(812,  <<8, 0, 193>>)                             \* 0x032C LD (0xC100),SP
    @@ At(816,  <<205, 0, 2>>)                             \* 0x0330 CALL 0x0200
    @@ At(820,  <<194, 6, 1>>)                             \* 0x0334 JP NZ,0x0106
    @@ At(824,  <<54, 171>>)                               \* 0x0338 LD (HL),0xAB
    @@ At(832,  <<4, 60, 52, 5, 144, 152, 184, 53, 214, 1>>) \* 0x0340 INC B; INC A; INC (HL); DEC B; SUB B; SBC A,B; CP B; DEC (HL); SUB 1
    @@ At(848,  <<233>>)                                   \* 0x0350 JP (HL)
    @@ At(849,  <<204, 0, 2>>)                             \* 0x0351 CALL Z,0x0200
    @@ At(852,  <<207, 201, 200, 208>>)                    \* 0x0354 RST 0x08; RET; RET Z; RET NC
    @@ At(856,  <<218, 6, 1>>)                             \* 0x0358 JP C,0x0106
    @@ At(859,  <<48, 5>>)                                 \* 0x035B JR NC,+5
    @@ At(864,  <<203, 64, 203, 70, 203, 192, 203, 198, 203, 128, 203, 134>>)
                                                           \* 0x0360 BIT 0,B; BIT 0,(HL); SET 0,B; SET 0,(HL); RES 0,B; RES 0,(HL)
    @@ At(880,  <<7, 15, 23, 31>>)                         \* 0x0370 RLCA; RRCA; RLA; RRA
    @@ At(884,  <<203, 0, 203, 8, 203, 16, 203, 24>>)      \* 0x0374 RLC B; RRC B; RL B; RR B
    @@ At(892,  <<203, 6, 203, 14, 203, 22, 203, 30>>)     \* 0x037C RLC (HL); RRC (HL); RL (HL); RR (HL)
    @@ At(900,  <<16, 0>>)                                 \* 0x0384 STOP
    @@ At(902,  <<243, 251, 217>>)                         \* 0x0386 DI; EI; RETI
    @@ At(905,  <<47, 55, 63>>)                            \* 0x0389 CPL; SCF; CCF
    @@ At(908,  <<203, 48, 203, 54, 203, 55>>)             \* 0x038C SWAP B; SWAP (HL); SWAP A
    @@ At(914,  <<17, 52, 18, 33, 52, 18>>)                \* 0x0392 LD DE,0x1234; LD HL,0x1234
    @@ At(920,  <<4, 12, 20, 28, 36, 44, 52, 60>>)         \* 0x0398 INC B / C / D / E / H / L / (HL) / A
    @@ At(928,  <<5, 13, 21, 29, 37, 45, 53, 61>>)         \* 0x03A0 DEC B / C / D / E / H / L / (HL) / A
    @@ At(936,  <<3, 19, 35, 51>>)                         \* 0x03A8 INC BC / DE / HL / SP
    @@ At(940,  <<11, 27, 43, 59>>)                        \* 0x03AC DEC BC / DE / HL / SP
    @@ At(944,  <<248, 5>>)                                \* 0x03B0 LD HL,SP+5
    @@ At(946,  <<203, 32, 203, 40, 203, 56, 203, 46>>)    \* 0x03B2 SLA B; SRA B; SRL B; SRA (HL)
    @@ At(960,  <<203, 88, 203, 126, 203, 216, 203, 254, 203, 152, 203, 190, 203, 71, 203, 239>>)
                                                           \* 0x03C0 BIT 3,B; BIT 7,(HL); SET 3,B; SET 7,(HL); RES 3,B; RES 7,(HL); BIT 0,A; SET 5,A
    @@ At(1024, <<211, 219, 221, 227, 228, 235, 236, 237, 244, 252, 253>>)
                                                           \* 0x0400 the opcodes without an instruction
    @@ At(4096, <<24, 254>>)                               \* 0x1000 JR -2

\* Memory after the frontend has stored every byte of the image with
\* Memory::put : all of them are addresses of the fixed ROM bank
RomImage ==
    [Memory_default EXCEPT
        !.rom = [a \in {x \in DOMAIN RomBytes : RomBytes[x] # 0} |-> RomBytes[a]]]

BusAddrs == {0, 16383, 16384, 32767, 32768, 40959, 40960, 49152, 49408, 56831, 56832,
             57344, 57600, 57856, 65023, 65184, 65279, 65280, 65535}
BusBytes == {0, 171, 205}

\* Spec: the stack instructions
StackEntries == {768, 769, 770, 771, 772, 773, 774, 775}
StackSPs == {0, 1, 36864, 49154, 57346, 65534}

\* SpecRun: every entry of the image
RunEntries == {256, 258, 260, 261, 262, 263, 512, 784, 788, 792, 794, 796, 797, 798,
               800, 802, 804, 808, 812, 816, 820, 824, 4096,
               832, 833, 834, 835, 836, 837, 838, 839, 840}
RunAs == {0, 15, 58, 255}
RunBs == {0, 1, 198, 255}
RunFs == {0, 16, 128}
RunHLs == {0, 49408}

\* SpecRun: the jumps, calls and returns, the bit instructions and the opcodes
\* without an instruction
FlowEntries == {263, 512, 768, 772, 914, 917, 816, 820, 848, 849, 852, 853, 854, 855, 856, 859, 4096}
FlowSPs == {0, 1, 49154, 65534, 65535}
BitEntries == {864, 866, 868, 870, 872, 874}
IllegalEntries == {1024, 1025, 1026, 1027, 1028, 1029, 1030, 1031, 1032, 1033, 1034}

\* SpecRot: the rotates
RotLeftEntries == {880, 882, 884, 888, 892, 896}    \* RLCA, RLA, RLC B, RL B, RLC (HL), RL (HL)
RotRightEntries == {881, 883, 886, 890, 894, 898}   \* RRCA, RRA, RRC B, RR B, RRC (HL), RR (HL)
ShiftEntries == {946, 948, 950, 952}                \* SLA B, SRA B, SRL B, SRA (HL)
RotBytes == 0..255
MiscEntries == {900, 902, 903, 904, 905, 906, 907, 908, 910, 912}
MiscAs == {0, 58, 240}
MiscFs == {f * 16 : f \in 0..15}
IncDecEntries == 920..935
LongEntries == 936..943
LongWords == {0, 4660, 65535}
LongFs == {0, 240}
SpPlusEntries == {944}
SpPlusSPs == {0, 7, 8, 255, 4660, 65535}
BitOpEntries == {960, 962, 964, 966, 968, 970, 972, 974}
BitOpBytes == {0, 8, 33, 128, 247, 255}
WrapOpcodes == {6, 203}                             \* LD B,n and the 0xCB prefix
RotHLs == {49408}                                   \* 0xC100, in work RAM

----------------------------------------------------------------------------
(* State, actions, specifications                                          *)

\* the Cpu value of the current state
Now == Cpu(registers, memory, cyclic, panicked)

Commit(c) ==
    /\ registers' = c.registers
    /\ memory' = c.memory
    /\ cyclic' = c.cyclic
    /\ panicked' = c.panicked

\* history record of one operation: what was called, the registers, memory
\* and cycle count before it, the bytes at PC before it, the instruction decoded and the PC / cycles right
\* after the decode
Op(op, before, inst, decoded, addr, value) ==
    [op |-> op,
     before |-> [registers |-> before.registers, memory |-> before.memory,
                 cyclic |-> before.cyclic],
     bytes |-> [k \in 0..2 |->
                   Memory_get(before.memory, (before.registers.pc + k) % 65536)],
     inst |-> inst,
     decoded |-> [pc |-> decoded.registers.pc, cyclic |-> decoded.cyclic,
                  panicked |-> decoded.panicked],
     addr |-> addr,
     value |-> value]

NoOp == Op("none", Cpu_default, None, Cpu_default, 0, 0)

InitCpu(pcs, sps, as, fs, bcs, des, hls) ==
    /\ overflow_checks \in BOOLEAN
    /\ \E pc \in pcs, sp \in sps, a \in as, f \in fs, bc \in bcs, de \in des, hl \in hls :
          registers = [af |-> from_be_bytes(a, f), bc |-> bc, de |-> de, hl |-> hl,
                       sp |-> sp, pc |-> pc]
    /\ origin = registers
    /\ memory = RomImage
    /\ cyclic = 0
    /\ panicked = FALSE
    /\ last = NoOp
    /\ prev = NoOp
    /\ steps = 0

\* Cpu::put_memory called by the frontend / a peripheral
PutMemory(addr, value) ==
    /\ ~panicked
    /\ cyclic < MaxBusCycles
    /\ Commit(put_memory(Now, addr, value))
    /\ last' = Op("put_memory", Now, None, Now, addr, value)
    /\ prev' = last
    /\ UNCHANGED <<overflow_checks, steps, origin>>

\* Cpu::get_memory called by the frontend / a peripheral
GetMemory(addr) ==
    /\ ~panicked
    /\ cyclic < MaxBusCycles
    /\ LET r == get_memory(Now, addr)
       IN  /\ Commit(r.c)
           /\ last' = Op("get_memory", Now, None, Now, addr, r.v)
    /\ prev' = last
    /\ UNCHANGED <<overflow_checks, steps, origin>>

\* Cpu::set_pc called by the frontend
SetPc(addr) ==
    /\ ~panicked
    /\ registers.pc # addr
    /\ Commit(set_pc(Now, addr))
    /\ UNCHANGED <<overflow_checks, last, prev, steps, origin>>

\* step() : decode the instruction at PC with Instruction::fetch, then run
\* Instruction::execute on it (nothing is executed when the decode yields None)
StepCpu(c) ==
    Bind(Instruction_fetch(c), LAMBDA f :
        IF f.v = None \/ f.c.panicked THEN f.c ELSE Instruction_execute(f.v, f.c))

Step(bound) ==
    /\ ~panicked
    /\ steps < bound
    /\ Commit(StepCpu(Now))
    /\ last' = Bind(Instruction_fetch(Now), LAMBDA f : Op("step", Now, f.v, f.c, 0, 0))
    /\ prev' = last
    /\ steps' = steps + 1
    /\ UNCHANGED <<overflow_checks, origin>>

InitMem ==
    /\ overflow_checks \in BOOLEAN
    /\ registers = Registers_default
    /\ origin = registers
    /\ memory = Memory_default
    /\ cyclic = 0
    /\ panicked = FALSE
    /\ last = NoOp
    /\ prev = NoOp
    /\ steps = 0

NextMem ==
    \/ \E addr \in BusAddrs, value \in BusBytes : PutMemory(addr, value)
    \/ \E addr \in BusAddrs : GetMemory(addr)

SpecMem == InitMem /\ [][NextMem]_vars

\* Cpu::default() (every register zero, PC = SP = 0), or the registers seeded
\* through put_long_reg before the stack instructions at 0x0300 run
Init ==
    \/ InitCpu({0}, {0}, {0}, {0}, {0}, {0}, {0})
    \/ InitCpu({768}, StackSPs, {18}, {0, 48}, {4660}, {22136}, {39612})

Next ==
    \/ Step(MaxSteps)
    \/ \E addr \in StackEntries : SetPc(addr)

Spec == Init /\ [][Next]_vars

\* PC at 0xFFFF, where the byte of the interrupt enable register is the opcode
InitWrap ==
    /\ overflow_checks \in BOOLEAN
    /\ \E opcode \in WrapOpcodes :
          memory = Memory_put(RomImage, 65535, opcode)
    /\ registers = [af |-> 0, bc |-> 0, de |-> 0, hl |-> 0, sp |-> 65534, pc |-> 65535]
    /\ origin = registers
    /\ cyclic = 0
    /\ panicked = FALSE
    /\ last = NoOp
    /\ prev = NoOp
    /\ steps = 0

\* PC at the CALL of 0x0330 and a RET stored in work RAM at 0xCD00
CallEntries == {816}
CallSPs == {49154, 53248, 65534}
ReturnAddrs == {52480}

InitCall ==
    /\ overflow_checks \in BOOLEAN
    /\ \E pc \in CallEntries, sp \in CallSPs, ret \in ReturnAddrs :
          /\ registers = [af |-> 0, bc |-> 0, de |-> 0, hl |-> 0, sp |-> sp, pc |-> pc]
          /\ memory = Memory_put(RomImage, ret, 201)
    /\ origin = registers
    /\ cyclic = 0
    /\ panicked = FALSE
    /\ last = NoOp
    /\ prev = NoOp
    /\ steps = 0

InitRun ==
    \/ InitCpu(RunEntries, {0, 65534}, RunAs, RunFs, {b * 256 : b \in RunBs}, {0}, RunHLs)
    \/ InitCpu(FlowEntries, FlowSPs, {0}, RunFs, {0}, {0}, RunHLs)
    \/ InitCpu(BitEntries, {65534}, {0}, {0, 16}, {0, 256}, {0}, RunHLs)
    \/ InitCpu(IllegalEntries, {65534}, {0}, {0}, {0}, {0}, {0})
    \/ InitWrap
    \/ InitCall
    \/ InitCpu(MiscEntries, {49154}, MiscAs, MiscFs, {58 * 256}, {0}, RunHLs)
    \/ InitCpu(IncDecEntries, {65534}, {15}, {0}, {0}, {0}, RunHLs)
    \/ InitCpu(LongEntries, LongWords, {0}, LongFs, LongWords, LongWords, LongWords)
    \/ InitCpu(SpPlusEntries, SpPlusSPs, {0}, LongFs, {0}, {0}, {0})
    \/ InitCpu(BitOpEntries, {65534}, BitOpBytes, MiscFs, {b * 256 : b \in BitOpBytes}, {0}, RunHLs)

NextRun == Step(MaxRunSteps)

SpecRun == InitRun /\ [][NextRun]_vars

\* a left rotation of the byte x held in A, B and (HL), then the program counter
\* moved to a right rotation
InitRot ==
    /\ overflow_checks \in BOOLEAN
    /\ \E pc \in RotLeftEntries \cup ShiftEntries, x \in RotBytes, f \in {0, 16}, hl \in RotHLs :
          /\ registers = [af |-> from_be_bytes(x, f), bc |-> from_be_bytes(x, 0),
                          de |-> 0, hl |-> hl, sp |-> 65534, pc |-> pc]
          /\ memory = Memory_put(RomImage, hl, x)
    /\ origin = registers
    /\ cyclic = 0
    /\ panicked = FALSE
    /\ last = NoOp
    /\ prev = NoOp
    /\ steps = 0

NextRot ==
    \/ Step(MaxRotSteps)
    \/ \E addr \in RotRightEntries :
          steps = 1 /\ registers.pc \in RotLeftEntries /\ SetPc(addr)

SpecRot == InitRot /\ [][NextRot]_vars

\* the prefix 0xCB followed by each of the 256 second bytes, placed in work RAM
\* and handed to Instruction::fetch
MaxDecodeSteps == 1
DecodeAddrs == {49152}
SecondBytes == 0..255

InitDecode ==
    /\ overflow_checks \in BOOLEAN
    /\ \E pc \in DecodeAddrs, x \in SecondBytes, hl \in RotHLs :
          /\ registers = [af |-> 0, bc |-> 0, de |-> 0, hl |-> hl, sp |-> 65534, pc |-> pc]
          /\ memory = Memory_put(Memory_put(RomImage, pc, 203), pc + 1, x)
    /\ origin = registers
    /\ cyclic = 0
    /\ panicked = FALSE
    /\ last = NoOp
    /\ prev = NoOp
    /\ steps = 0

\* Instruction::fetch(&cpu) called on its own: the instruction it returns and
\* the Cpu it leaves
FetchInstruction ==
    /\ ~panicked
    /\ steps < MaxDecodeSteps
    /\ Bind(Instruction_fetch(Now), LAMBDA f :
          /\ Commit(f.c)
          /\ last' = Op("fetch", Now, f.v, f.c, 0, 0))
    /\ prev' = last
    /\ steps' = steps + 1
    /\ UNCHANGED <<overflow_checks, origin>>

NextDecode == FetchInstruction

SpecDecode == InitDecode /\ [][NextDecode]_vars

\* Cpu::push_stack one bus write at a time: `steps` is the position inside
\* push_stack, the word pushed is BC as it was at the start
PushSPs == {0, 1, 2, 36864, 49154, 53248, 65534, 65535}
PushWords == {0, 4660, 43981, 65535}

InitPush ==
    /\ overflow_checks \in BOOLEAN
    /\ \E sp \in PushSPs, bc \in PushWords :
          registers = [Registers_default EXCEPT !.sp = sp, !.bc = bc]
    /\ origin = registers
    /\ memory = Memory_default
    /\ cyclic = 0
    /\ panicked = FALSE
    /\ last = NoOp
    /\ prev = NoOp
    /\ steps = 0

\* let addr = sp - 2; put_long_at: self.put_memory(addr, lsb)
PushWriteFirst ==
    /\ ~panicked
    /\ steps = 0
    /\ Bind(sub_u16(Now, get_long_reg(Now, "SP"), 2), LAMBDA addr :
          /\ Commit(put_memory(addr.c, addr.v, to_be_bytes(origin.bc).lo))
          /\ last' = Op("put_memory", Now, None, Now, addr.v, to_be_bytes(origin.bc).lo))
    /\ prev' = last
    /\ steps' = 1
    /\ UNCHANGED <<overflow_checks, origin>>

\* put_long_at: self.put_memory(addr + 1, msb)
PushWriteSecond ==
    /\ ~panicked
    /\ steps = 1
    /\ Bind(add_u16(Now, last.addr, 1), LAMBDA a :
          /\ Commit(put_memory(a.c, a.v, to_be_bytes(origin.bc).hi))
          /\ last' = Op("put_memory", Now, None, Now, a.v, to_be_bytes(origin.bc).hi))
    /\ prev' = last
    /\ steps' = 2
    /\ UNCHANGED <<overflow_checks, origin>>

\* self.put_long_reg(LongRegister::SP, addr)
PushSetSP ==
    /\ ~panicked
    /\ steps = 2
    /\ Commit(put_long_reg(Now, "SP", prev.addr))
    /\ steps' = 3
    /\ UNCHANGED <<overflow_checks, origin, last, prev>>

NextPush == PushWriteFirst \/ PushWriteSecond \/ PushSetSP

SpecPush == InitPush /\ [][NextPush]_vars

\* byte and word writes to the register file
RegBytes == {36, 86}          \* 0x24, 0x56
RegWords == {4660}            \* 0x1234
RegPairs == {"AF", "BC", "DE", "HL"}

PutReg(reg, value) ==
    /\ steps < MaxRegSteps
    /\ Commit(put_reg(Now, reg, value))
    /\ last' = Op("put_reg", Now, Inst("Access", "put_reg", reg, "", 0, ""), Now, 0, value)
    /\ prev' = last
    /\ steps' = steps + 1
    /\ UNCHANGED <<overflow_checks, origin>>

PutLongReg(reg, value) ==
    /\ steps < MaxRegSteps
    /\ Commit(put_long_reg(Now, reg, value))
    /\ last' = Op("put_long_reg", Now, Inst("Access", "put_long_reg", reg, "", 0, ""), Now, 0, value)
    /\ prev' = last
    /\ steps' = steps + 1
    /\ UNCHANGED <<overflow_checks, origin>>

NextReg ==
    \/ \E i \in 1..8, value \in RegBytes : PutReg(REGISTERS[i], value)
    \/ \E reg \in RegPairs, value \in RegWords : PutLongReg(reg, value)

SpecReg == InitMem /\ [][NextReg]_vars

----------------------------------------------------------------------------
(* Properties: registers and memory map                                    *)

\* bit `mask` of F in the register file regs (Z = 128, N = 64, H = 32, C = 16)
FlagBit(regs, mask) == ((regs.af % 256) \div mask) % 2 = 1

\* the step `op` decoded the variant `name`
Stepped(op, name) == op.op = "step" /\ op.inst.op = name

\* C1: after any sequence of executed instructions (POP AF of arbitrary stack
\* bytes included) the low four bits of register F are zero.
C1_FLowNibbleZero == (registers.af % 256) % 16 = 0

\* the work-RAM address of a work-RAM / echo-RAM address
WorkOf(addr) == IF addr >= 57344 THEN addr - 8192 ELSE addr

\* addr is in 0xC000..0xDDFF or in its echo 0xE000..0xFDFF
Mirrored(addr) == addr \in 49152..56831 \/ addr \in 57344..65023

\* C2: after a write of v to A in 0xC000..0xDDFF, or to A + 0x2000, reads at
\* A and at A + 0x2000 both return v.
C2_EchoMirrorsWorkRam ==
    /\ (last.op = "put_memory" /\ Mirrored(last.addr)) =>
          /\ Memory_get(memory, WorkOf(last.addr)) = last.value
          /\ Memory_get(memory, WorkOf(last.addr) + 8192) = last.value
    /\ (/\ last.op = "get_memory"
        /\ prev.op = "put_memory"
        /\ Mirrored(prev.addr)
        /\ last.addr \in {WorkOf(prev.addr), WorkOf(prev.addr) + 8192}) =>
          last.value = prev.value

\* a byte written to the last work-RAM address that has an echo (0xDDFF) has
\* been read back through the echo (0xFDFF)
C2_Witness ==
    /\ prev.op = "put_memory" /\ prev.addr = 56831 /\ prev.value = 205
    /\ last.op = "get_memory" /\ last.addr = 65023 /\ last.value = 205

\* the prohibited region 0xFEA0..0xFEFF
Prohibited == 65184..65279

\* C3: every read from 0xFEA0..0xFEFF returns 0xFF, initially and after any
\* writes, and a write into that range changes no value a later read returns.
C3_ProhibitedReadsFF ==
    /\ \A a \in Prohibited : Memory_get(memory, a) = 255
    /\ (last.op = "put_memory" /\ last.addr \in Prohibited) =>
          \A a \in BusAddrs : Memory_get(memory, a) = Memory_get(last.before.memory, a)

\* C4: a CPU write to an address in 0x0000..0x7FFF leaves the byte read at
\* every ROM address as it was before the write.
C4_RomUnchangedByWrite ==
    (last.op = "put_memory" /\ last.addr \in 0..32767) =>
        \A a \in {x \in BusAddrs : x <= 32767} :
            Memory_get(memory, a) = Memory_get(last.before.memory, a)

----------------------------------------------------------------------------
(* Properties: the stack                                                   *)

\* the register pair rr before the step `op`
PairBefore(op, rr) == Registers_get_long(op.before.registers, rr)

\* equal, up to the low nibble of F when the pair is AF
SamePair(rr, x, y) == IF rr = "AF" THEN x \div 16 = y \div 16 ELSE x = y

\* C5: PUSH rr immediately followed by POP rr completes and leaves rr (for AF
\* with the low nibble of F zeroed) and SP as they were before the PUSH, for
\* every pair, value and SP.
C5_PushPopRestores ==
    /\ Stepped(last, "Push") => ~panicked
    /\ (Stepped(prev, "Push") /\ Stepped(last, "Pop") /\ last.inst.r = prev.inst.r) =>
          /\ ~panicked
          /\ Registers_get_long(registers, last.inst.r)
                = IF last.inst.r = "AF"
                  THEN (PairBefore(prev, "AF") \div 16) * 16
                  ELSE PairBefore(prev, last.inst.r)
          /\ registers.sp = prev.before.registers.sp

\* C6: PUSH rr stores the low byte at SP-2 and the high byte at SP-1, sets SP
\* to SP-2 and costs 16 cycles; POP rr reads the low byte from SP and the high
\* byte from SP+1, sets SP to SP+2 and costs 12 cycles; from SP = 0xFFFE and
\* BC = 0x1234, PUSH BC then POP BC leaves 0x34 at 0xFFFC, 0x12 at 0xFFFD,
\* BC = 0x1234, SP = 0xFFFE after 28 cycles.
C6_PushPopLayout ==
    /\ Stepped(last, "Push") =>
          LET sp == last.before.registers.sp
              v == PairBefore(last, last.inst.r)
          IN  /\ ~panicked
              /\ Memory_get(memory, (sp - 2) % 65536) = v % 256
              /\ Memory_get(memory, (sp - 1) % 65536) = v \div 256
              /\ registers.sp = (sp - 2) % 65536
              /\ cyclic = last.before.cyclic + 16
    /\ Stepped(last, "Pop") =>
          LET sp == last.before.registers.sp
              m == last.before.memory
          IN  /\ ~panicked
              /\ SamePair(last.inst.r, Registers_get_long(registers, last.inst.r),
                          Memory_get(m, sp) + 256 * Memory_get(m, (sp + 1) % 65536))
              /\ registers.sp = (sp + 2) % 65536
              /\ cyclic = last.before.cyclic + 12
    /\ (/\ Stepped(prev, "Push") /\ prev.inst.r = "BC"
        /\ prev.before.registers.sp = 65534 /\ prev.before.registers.bc = 4660
        /\ Stepped(last, "Pop") /\ last.inst.r = "BC") =>
          /\ Memory_get(memory, 65532) = 52
          /\ Memory_get(memory, 65533) = 18
          /\ registers.bc = 4660
          /\ registers.sp = 65534
          /\ cyclic = prev.before.cyclic + 28

----------------------------------------------------------------------------
(* Properties: decoding                                                    *)

\* opcodes that take an 8-bit immediate: LD r,n / LD (HL),n, the ALU A,n
\* group, JR e / JR cc,e, LDH, ADD SP,e and LD HL,SP+e
Imm8Opcodes ==
    {6, 14, 22, 30, 38, 46, 54, 62} \cup {198, 206, 214, 222, 230, 238, 246, 254}
        \cup {24, 32, 40, 48, 56} \cup {224, 240, 232, 248}

\* opcodes that take a 16-bit immediate: JP nn, JP cc,nn, CALL nn, LD rr,nn,
\* LD (nn),A, LD A,(nn), LD (nn),SP
Imm16Opcodes == {195, 194, 202, 210, 218, 205, 1, 17, 33, 49, 234, 250, 8}

\* C7: decoding an instruction with an 8-bit immediate whose opcode is at P
\* yields the byte at P+1 as operand and leaves PC = P+2.
C7_Imm8Decode ==
    (last.op = "step" /\ last.bytes[0] \in Imm8Opcodes) =>
        /\ last.inst # None
        /\ last.inst.n % 256 = last.bytes[1]
        /\ last.decoded.pc = (last.before.registers.pc + 2) % 65536

\* C8: the operand decoded for a 16-bit immediate is low + 256 * high, low
\* being the first operand byte in memory and high the second.
C8_Imm16LittleEndian ==
    (last.op = "step" /\ last.bytes[0] \in Imm16Opcodes) =>
        /\ last.inst # None
        /\ last.inst.n = last.bytes[1] + 256 * last.bytes[2]

\* C9: from the zero-initialised registers with PC seeded to 0x0100 and the
\* bytes 3E 01 06 01 80 47 78 C3 06 01 at 0x0100, six instructions leave
\* A = 2, B = 2 and PC = 0x0106.
C9_FibonacciFragment ==
    (origin = [Registers_default EXCEPT !.pc = 256] /\ steps = 6) =>
        /\ registers.af \div 256 = 2
        /\ registers.bc \div 256 = 2
        /\ registers.pc = 262

----------------------------------------------------------------------------
(* Properties: arithmetic                                                  *)

AddOps == {"AddImmediate", "AddRegister", "AddAddrHL"}
AdcOps == {"AddCarryImmediate", "AddCarryRegister", "AddCarryAddrHL"}

\* the second operand of the ADD / ADC that the step `op` executed
AddOperand(op) ==
    CASE op.inst.op \in {"AddImmediate", "AddCarryImmediate"} -> op.inst.n
      [] op.inst.op \in {"AddRegister", "AddCarryRegister"} ->
            Registers_get(op.before.registers, op.inst.r)
      [] OTHER -> Memory_get(op.before.memory, op.before.registers.hl)

\* C10: ADD / ADC set H exactly when (a & 0xF) + (b & 0xF) + c > 0xF, c being
\* 0 for ADD and the old carry for ADC; 0x0F + 0x01 gives 0x10 with H = 1,
\* C = 0; 0x3A + 0xC6 gives 0x00 with Z = 1, N = 0, H = 1, C = 1.
C10_HalfCarry ==
    (last.op = "step" /\ last.inst.op \in AddOps \cup AdcOps) =>
        LET a == last.before.registers.af \div 256
            b == AddOperand(last)
            cin == IF last.inst.op \in AdcOps /\ FlagBit(last.before.registers, 16)
                   THEN 1 ELSE 0
        IN  /\ FlagBit(registers, 32) = ((a % 16) + (b % 16) + cin > 15)
            /\ (a = 15 /\ b = 1 /\ cin = 0) =>
                  /\ registers.af \div 256 = 16
                  /\ FlagBit(registers, 32) /\ ~FlagBit(registers, 16)
            /\ (a = 58 /\ b = 198 /\ cin = 0) =>
                  /\ registers.af \div 256 = 0
                  /\ FlagBit(registers, 128) /\ ~FlagBit(registers, 64)
                  /\ FlagBit(registers, 32) /\ FlagBit(registers, 16)

\* the carry-in of the ADD / ADC that the step `op` executed
AddCarryIn(op) ==
    IF op.inst.op \in AdcOps /\ FlagBit(op.before.registers, 16) THEN 1 ELSE 0

\* C11: ADD / ADC complete, leave A = (a + b + c) mod 256 and set
\* Z = (A = 0), N = 0 and C = (a + b + c > 0xFF).
C11_AddResult ==
    (last.op = "step" /\ last.inst.op \in AddOps \cup AdcOps) =>
        LET sum == (last.before.registers.af \div 256) + AddOperand(last) + AddCarryIn(last)
        IN  /\ ~panicked
            /\ registers.af \div 256 = sum % 256
            /\ FlagBit(registers, 128) = (sum % 256 = 0)
            /\ ~FlagBit(registers, 64)
            /\ FlagBit(registers, 16) = (sum > 255)

SubOps == {"SubImmediate", "SubRegister", "SubAddrHL"}
SbcOps == {"SubCarryImmediate", "SubCarryRegister", "SubCarryAddrHL"}
CmpOps == {"CmpImmediate", "CmpRegister", "CmpAddrHL"}

\* the opcodes INC r / INC (HL) and DEC r / DEC (HL)
IncOpcodes == {4, 12, 20, 28, 36, 44, 52, 60}
DecOpcodes == {5, 13, 21, 29, 37, 45, 53, 61}

\* the operand that bits 5..3 of the opcode of the step `op` name (B, C, D, E,
\* H, L, (HL), A), read from regs / mem
IncDecOperand(op, regs, mem) ==
    LET r == <<"B", "C", "D", "E", "H", "L", "(HL)", "A">>[(Shr(op.bytes[0], 3) % 8) + 1]
    IN  IF r = "(HL)" THEN Memory_get(mem, op.before.registers.hl)
        ELSE Registers_get(regs, r)

\* C12: INC r / INC (HL) store (v + 1) mod 256, set Z = (result = 0), N = 0,
\* H = ((v & 0xF) = 0xF) and leave C unchanged; INC of 0xFF gives 0x00 with
\* Z = 1 and H = 1.
C12_Inc ==
    (last.op = "step" /\ last.bytes[0] \in IncOpcodes) =>
        LET v == IncDecOperand(last, last.before.registers, last.before.memory)
            result == IncDecOperand(last, registers, memory)
        IN  /\ ~panicked
            /\ result = (v + 1) % 256
            /\ FlagBit(registers, 128) = (result = 0)
            /\ ~FlagBit(registers, 64)
            /\ FlagBit(registers, 32) = (v % 16 = 15)
            /\ FlagBit(registers, 16) = FlagBit(last.before.registers, 16)

\* C13: SUB, SBC, CP and DEC complete with result = (a - b - c) mod 256 (in A
\* for SUB / SBC, in the operand for DEC, discarded by CP), N = 1,
\* Z = (result = 0), H = borrow out of the low nibble, C = borrow out of bit 7
\* (unchanged for DEC); DEC of 0x00 gives 0xFF with Z = 0, N = 1, H = 1.
C13_SubDec ==
    /\ (last.op = "step" /\ last.inst.op \in SubOps \cup SbcOps \cup CmpOps) =>
          LET a == last.before.registers.af \div 256
              b == IF last.inst.op \in {"SubImmediate", "SubCarryImmediate", "CmpImmediate"}
                   THEN last.inst.n
                   ELSE IF last.inst.op \in {"SubRegister", "SubCarryRegister", "CmpRegister"}
                   THEN Registers_get(last.before.registers, last.inst.r)
                   ELSE Memory_get(last.before.memory, last.before.registers.hl)
              cin == IF last.inst.op \in SbcOps /\ FlagBit(last.before.registers, 16)
                     THEN 1 ELSE 0
              result == (a - b - cin) % 256
          IN  /\ ~panicked
              /\ registers.af \div 256 = IF last.inst.op \in CmpOps THEN a ELSE result
              /\ FlagBit(registers, 128) = (result = 0)
              /\ FlagBit(registers, 64)
              /\ FlagBit(registers, 32) = ((a % 16) - (b % 16) - cin < 0)
              /\ FlagBit(registers, 16) = (a - b - cin < 0)
    /\ (last.op = "step" /\ last.bytes[0] \in DecOpcodes) =>
          LET v == IncDecOperand(last, last.before.registers, last.before.memory)
              result == IncDecOperand(last, registers, memory)
          IN  /\ ~panicked
              /\ result = (v - 1) % 256
              /\ FlagBit(registers, 128) = (result = 0)
              /\ FlagBit(registers, 64)
              /\ FlagBit(registers, 32) = (v % 16 = 0)
              /\ FlagBit(registers, 16) = FlagBit(last.before.registers, 16)

\* the condition cc that bits 4..3 of a conditional jump / call / return opcode
\* name (NZ, Z, NC, C), evaluated on the flags before the step `op`
ConditionHolds(op) ==
    LET cc == Shr(And(op.bytes[0], 24), 3)
    IN  CASE cc = 0 -> ~FlagBit(op.before.registers, 128)
          [] cc = 1 -> FlagBit(op.before.registers, 128)
          [] cc = 2 -> ~FlagBit(op.before.registers, 16)
          [] cc = 3 -> FlagBit(op.before.registers, 16)

\* JP nn, JP cc,nn, JP (HL), JR e, JR cc,e, CALL nn, CALL cc,nn, RST n and RET
FlowOpcodes ==
    {195, 233, 24, 205, 201}
        \cup {194, 202, 210, 218} \cup {32, 40, 48, 56} \cup {196, 204, 212, 220}
        \cup {199, 207, 215, 223, 231, 239, 247, 255}

\* the cycles C14 gives to the opcode of the step `op`
FlowCycles(op) ==
    LET opcode == op.bytes[0]
    IN  IF opcode = 195 THEN 16
        ELSE IF opcode \in {194, 202, 210, 218} THEN (IF ConditionHolds(op) THEN 16 ELSE 12)
        ELSE IF opcode = 233 THEN 4
        ELSE IF opcode = 24 THEN 12
        ELSE IF opcode \in {32, 40, 48, 56} THEN (IF ConditionHolds(op) THEN 12 ELSE 8)
        ELSE IF opcode = 205 THEN 24
        ELSE IF opcode \in {196, 204, 212, 220} THEN (IF ConditionHolds(op) THEN 24 ELSE 12)
        ELSE 16

\* C14: a jump, call, RST or RET completes and advances the cycle counter by
\* 16 (JP nn, taken JP cc), 12 (not-taken JP cc), 4 (JP (HL)), 12 (JR, taken
\* JR cc), 8 (not-taken JR cc), 24 (CALL, taken CALL cc), 12 (not-taken CALL
\* cc), 16 (RST), 16 (RET); bytes 28 05 at 0x0200 give PC = 0x0202 in 8
\* cycles when Z = 0 and PC = 0x0207 in 12 cycles when Z = 1.
C14_FlowCycles ==
    (last.op = "step" /\ last.bytes[0] \in FlowOpcodes) =>
        /\ ~panicked
        /\ cyclic - last.before.cyclic = FlowCycles(last)
        /\ (last.before.registers.pc = 512 /\ last.bytes[0] = 40 /\ last.bytes[1] = 5) =>
              registers.pc = IF FlagBit(last.before.registers, 128) THEN 519 ELSE 514

\* RET NZ, RET Z, RET NC, RET C
RetCcOpcodes == {192, 200, 208, 216}

\* C15: RET cc costs 20 cycles when the condition holds (PC becomes the 16-bit
\* value popped from the stack, SP increases by 2) and 8 cycles when it does
\* not (SP unchanged, PC at the following instruction).
C15_RetCc ==
    (last.op = "step" /\ last.bytes[0] \in RetCcOpcodes) =>
        /\ ~panicked
        /\ IF ConditionHolds(last)
           THEN /\ cyclic - last.before.cyclic = 20
                /\ registers.pc =
                      get_long_at(Cpu(last.before.registers, last.before.memory,
                                      last.before.cyclic, FALSE),
                                  last.before.registers.sp).v
                /\ registers.sp = (last.before.registers.sp + 2) % 65536
           ELSE /\ cyclic - last.before.cyclic = 8
                /\ registers.sp = last.before.registers.sp
                /\ registers.pc = (last.before.registers.pc + 1) % 65536

\* the cycles C16 gives to the 0xCB-prefixed opcode of the step `op`: 8 for
\* BIT / SET / RES on a register, 12 for BIT n,(HL), 16 for SET / RES n,(HL)
BitCycles(op) ==
    IF op.bytes[1] % 8 # 6 THEN 8
    ELSE IF Shr(op.bytes[1], 6) = 1 THEN 12
    ELSE 16

\* C16: counting the 0xCB prefix fetch and the second opcode fetch, BIT n,r /
\* SET n,r / RES n,r cost 8 cycles, BIT n,(HL) costs 12 cycles and
\* SET n,(HL) / RES n,(HL) cost 16 cycles.
C16_BitCycles ==
    (last.op = "step" /\ last.bytes[0] = 203 /\ last.bytes[1] >= 64) =>
        /\ ~panicked
        /\ cyclic - last.before.cyclic = BitCycles(last)

\* the signed value of the byte e
SignExtend(e) == IF e >= 128 THEN e - 256 ELSE e

\* C17: JR e sets PC to (address of the byte after the 2-byte instruction +
\* sign_extend(e)) mod 2^16; with bytes 0x18 0xFE at 0x1000 and PC = 0x1000,
\* one step leaves PC = 0x1000.
C17_JumpRelative ==
    (last.op = "step" /\ last.bytes[0] = 24) =>
        /\ ~panicked
        /\ registers.pc =
              (last.before.registers.pc + 2 + SignExtend(last.bytes[1])) % 65536

\* the step `op` is RLCA / RRCA / RLA / RRA or a 0xCB-prefixed RLC / RRC / RL / RR
IsRotate(op) ==
    /\ op.op = "step"
    /\ \/ op.bytes[0] \in {7, 15, 23, 31}
       \/ op.bytes[0] = 203 /\ op.bytes[1] < 32

\* 0 = RLC, 1 = RRC, 2 = RL, 3 = RR
RotateKind(op) == (IF op.bytes[0] = 203 THEN op.bytes[1] ELSE op.bytes[0]) \div 8

\* the operand the opcode of the rotation `op` names
RotateTarget(op) ==
    IF op.bytes[0] = 203
    THEN <<"B", "C", "D", "E", "H", "L", "(HL)", "A">>[(op.bytes[1] % 8) + 1]
    ELSE "A"

RotateOperand(op, regs, mem) ==
    IF RotateTarget(op) = "(HL)" THEN Memory_get(mem, regs.hl)
    ELSE Registers_get(regs, RotateTarget(op))

\* C18: RLC followed by RRC on the same operand restores the operand; RL
\* followed by RR on the same operand restores the operand and the carry flag.
C18_RotateRoundTrip ==
    (/\ IsRotate(prev) /\ IsRotate(last)
     /\ RotateKind(prev) \in {0, 2}
     /\ RotateKind(last) = RotateKind(prev) + 1
     /\ RotateTarget(last) = RotateTarget(prev)) =>
        /\ ~panicked
        /\ RotateOperand(last, registers, memory)
              = RotateOperand(prev, prev.before.registers, prev.before.memory)
        /\ RotateKind(prev) = 2 =>
              FlagBit(registers, 16) = FlagBit(prev.before.registers, 16)

\* RLA of A = 0x80 without carry gave A = 0x00 with carry, and RRA gave A = 0x80
\* without carry again
C18_Witness ==
    /\ prev.op = "step" /\ prev.bytes[0] = 23
    /\ last.op = "step" /\ last.bytes[0] = 31
    /\ prev.before.registers.af = 128 * 256
    /\ last.before.registers.af \div 256 = 0
    /\ FlagBit(last.before.registers, 16)
    /\ registers.af \div 256 = 128
    /\ ~FlagBit(registers, 16)

\* PUSH qq and CALL nn; POP qq and RET
PushCallOpcodes == {197, 213, 229, 245, 205}
PopRetOpcodes == {193, 209, 225, 241, 201}

\* C19: PC and SP arithmetic wraps modulo 2^16 without failure: advancing PC
\* past 0xFFFF continues at 0x0000, PUSH / CALL with SP < 2 leaves
\* SP = (SP - 2) mod 65536, POP / RET with SP >= 0xFFFE leaves
\* SP = (SP + 2) mod 65536.
C19_Wraps ==
    last.op = "step" =>
        /\ (last.bytes[0] \in PushCallOpcodes /\ last.before.registers.sp < 2) =>
              /\ ~panicked
              /\ registers.sp = (last.before.registers.sp - 2) % 65536
        /\ (last.bytes[0] \in PopRetOpcodes /\ last.before.registers.sp >= 65534) =>
              /\ ~panicked
              /\ registers.sp = (last.before.registers.sp + 2) % 65536
        /\ last.before.registers.pc = 65535 =>
              /\ ~panicked
              /\ last.bytes[0] = 6 => registers.pc = 0

\* the opcodes without an instruction
IllegalOpcodes == {211, 219, 221, 227, 228, 235, 236, 237, 244, 252, 253}

C21_StopDecode ==
    (last.op = "step" /\ last.bytes[0] = 16 /\ last.bytes[1] = 0) =>
        /\ last.inst = Misc("Stop")
        /\ last.decoded.pc = (last.before.registers.pc + 2) % 65536

\* the byte registers that are the high and the low half of a register pair
HighOf(pair) == CASE pair = "AF" -> "A" [] pair = "BC" -> "B" [] pair = "DE" -> "D" [] pair = "HL" -> "H"
LowOf(pair) == CASE pair = "AF" -> "F" [] pair = "BC" -> "C" [] pair = "DE" -> "E" [] pair = "HL" -> "L"

\* C22: byte access aliases word access for every register pair: after
\* writing h to the high half and l to the low half the pair reads h*256 + l,
\* writing one half leaves the other half (and every other register)
\* unchanged, and reading the high / low half returns the high / low byte of
\* the word.
C22_PairAliases ==
    /\ \A pair \in RegPairs :
          /\ Registers_get(registers, HighOf(pair)) = Registers_get_long(registers, pair) \div 256
          /\ Registers_get(registers, LowOf(pair)) = Registers_get_long(registers, pair) % 256
    /\ last.op = "put_reg" =>
          \A i \in 1..8 :
              Registers_get(registers, REGISTERS[i]) =
                  IF REGISTERS[i] = last.inst.r THEN last.value
                  ELSE Registers_get(last.before.registers, REGISTERS[i])
    /\ last.op = "put_long_reg" =>
          /\ Registers_get(registers, HighOf(last.inst.r)) = last.value \div 256
          /\ Registers_get(registers, LowOf(last.inst.r)) = last.value % 256
    /\ \A pair \in RegPairs :
          /\ (prev.op = "put_reg" /\ prev.inst.r = HighOf(pair)
                /\ last.op = "put_reg" /\ last.inst.r = LowOf(pair)) =>
                Registers_get_long(registers, pair) = prev.value * 256 + last.value
          /\ (prev.op = "put_reg" /\ prev.inst.r = LowOf(pair)
                /\ last.op = "put_reg" /\ last.inst.r = HighOf(pair)) =>
                Registers_get_long(registers, pair) = last.value * 256 + prev.value

\* 0x56 was written to B and then 0x24 to C, and BC reads 0x5624
C22_Witness ==
    /\ prev.op = "put_reg" /\ prev.inst.r = "B" /\ prev.value = 86
    /\ last.op = "put_reg" /\ last.inst.r = "C" /\ last.value = 36
    /\ registers.bc = 22052

\* DI, EI and RETI
InterruptOpcodes == {243, 251, 217}

\* C23: DI clears IME immediately, EI sets IME after the next instruction has
\* completed, RETI sets IME immediately.  The Cpu has no IME field; stated
\* here is what every part of the claim needs: DI, EI and RETI complete.
C23_InterruptMasterEnable ==
    (last.op = "step" /\ last.bytes[0] \in InterruptOpcodes) => ~panicked

\* RLCA, RRCA, RLA, RRA
RotateAOpcodes == {7, 15, 23, 31}

\* the bit of the byte a that the rotation with opcode `opcode` moves out:
\* bit 7 for RLCA / RLA, bit 0 for RRCA / RRA
RotatedOut(opcode, a) == IF opcode \in {7, 23} THEN a \div 128 ELSE a % 2

\* C24: RLCA, RLA, RRCA and RRA always leave Z = 0, including when the result
\* in A is 0x00, and set N = 0, H = 0 and C to the bit rotated out.
C24_RotateAFlags ==
    (last.op = "step" /\ last.bytes[0] \in RotateAOpcodes) =>
        /\ ~panicked
        /\ ~FlagBit(registers, 128)
        /\ ~FlagBit(registers, 64)
        /\ ~FlagBit(registers, 32)
        /\ FlagBit(registers, 16) =
              (RotatedOut(last.bytes[0], last.before.registers.af \div 256) = 1)

\* C25: CPL sets A to its bitwise complement, sets N = 1 and H = 1, and
\* leaves Z and C unchanged.
C25_Cpl ==
    (last.op = "step" /\ last.bytes[0] = 47) =>
        /\ ~panicked
        /\ registers.af \div 256 = 255 - (last.before.registers.af \div 256)
        /\ FlagBit(registers, 64)
        /\ FlagBit(registers, 32)
        /\ FlagBit(registers, 128) = FlagBit(last.before.registers, 128)
        /\ FlagBit(registers, 16) = FlagBit(last.before.registers, 16)

\* C26: SCF sets C = 1 and CCF inverts C; both clear N and H and leave Z and
\* register A unchanged.
C26_ScfCcf ==
    (last.op = "step" /\ last.bytes[0] \in {55, 63}) =>
        /\ ~panicked
        /\ FlagBit(registers, 16) =
              IF last.bytes[0] = 55 THEN TRUE ELSE ~FlagBit(last.before.registers, 16)
        /\ ~FlagBit(registers, 64)
        /\ ~FlagBit(registers, 32)
        /\ FlagBit(registers, 128) = FlagBit(last.before.registers, 128)
        /\ registers.af \div 256 = last.before.registers.af \div 256

\* the operand that bits 2..0 of the second byte of the 0xCB-prefixed step
\* `op` name, read from regs / mem
PrefixedOperand(op, regs, mem) ==
    LET r == <<"B", "C", "D", "E", "H", "L", "(HL)", "A">>[(op.bytes[1] % 8) + 1]
    IN  IF r = "(HL)" THEN Memory_get(mem, op.before.registers.hl)
        ELSE Registers_get(regs, r)

\* C27: SWAP r / SWAP (HL) exchanges the high and low nibbles of the operand,
\* sets Z = (result = 0) and clears N, H and C.
C27_Swap ==
    (last.op = "step" /\ last.bytes[0] = 203 /\ last.bytes[1] \div 8 = 6) =>
        LET v == PrefixedOperand(last, last.before.registers, last.before.memory)
            result == PrefixedOperand(last, registers, memory)
        IN  /\ ~panicked
            /\ result = (v % 16) * 16 + (v \div 16)
            /\ FlagBit(registers, 128) = (result = 0)
            /\ ~FlagBit(registers, 64)
            /\ ~FlagBit(registers, 32)
            /\ ~FlagBit(registers, 16)

\* C28: for LD rr,nn (opcode & 0xCF = 0x01) bits 5..4 select BC, DE, HL, SP,
\* so 0x31 decodes and executes as LD SP,nn: SP receives the decoded nn and AF
\* is unchanged.
C28_LoadImmediateLongRegister ==
    (last.op = "step" /\ And(last.bytes[0], 207) = 1) =>
        /\ ~panicked
        /\ last.inst.op = "LoadImmediateLong"
        /\ last.inst.r = <<"BC", "DE", "HL", "SP">>[Shr(last.bytes[0], 4) + 1]
        /\ last.bytes[0] = 49 =>
              /\ registers.sp = last.inst.n
              /\ registers.af = last.before.registers.af

\* C29: for every opcode with opcode & 0xC7 = 0x04 (INC r) or 0x05 (DEC r) the
\* decoded operand is the one bits 5..3 select among B, C, D, E, H, L, (HL),
\* A; 0x04 is INC B, 0x0C is INC C, 0x34 is INC (HL).
C29_IncDecOperand ==
    (last.op = "step" /\ And(last.bytes[0], 199) \in {4, 5}) =>
        LET isDec == last.bytes[0] % 2 = 1
            field == Shr(And(last.bytes[0], 56), 3)
        IN  IF field = 6
            THEN last.inst.op = IF isDec THEN "DecAddrHL" ELSE "IncAddrHL"
            ELSE /\ last.inst.op = IF isDec THEN "DecRegister" ELSE "IncRegister"
                 /\ last.inst.r = <<"B", "C", "D", "E", "H", "L", "(HL)", "A">>[field + 1]

\* INC rr and DEC rr
IncLongOpcodes == {3, 19, 35, 51}
DecLongOpcodes == {11, 27, 43, 59}

\* C30: INC rr and DEC rr change rr to (rr + 1) mod 2^16 and (rr - 1) mod 2^16
\* for rr in BC, DE, HL, SP, and leave all four flags unchanged.
C30_IncDecLong ==
    (last.op = "step" /\ last.bytes[0] \in IncLongOpcodes \cup DecLongOpcodes) =>
        LET rr == <<"BC", "DE", "HL", "SP">>[Shr(last.bytes[0], 4) + 1]
            old == Registers_get_long(last.before.registers, rr)
        IN  /\ ~panicked
            /\ Registers_get_long(registers, rr) =
                  IF last.bytes[0] \in IncLongOpcodes THEN (old + 1) % 65536
                  ELSE (old - 1) % 65536
            /\ registers.af % 256 = last.before.registers.af % 256

\* C31: LD HL,SP+e completes, sets HL = (SP + sign_extend(e)) mod 2^16, Z = 0,
\* N = 0, H = carry out of bit 3 and C = carry out of bit 7 of the unsigned
\* addition of SP's low byte and the byte e, and leaves SP unchanged.  e is the
\* operand as decoded.
C31_LoadHLSPPlusE ==
    (last.op = "step" /\ last.bytes[0] = 248) =>
        LET sp == last.before.registers.sp
            e == last.inst.n
            byte == e % 256
        IN  /\ ~panicked
            /\ registers.hl = (sp + e) % 65536
            /\ registers.sp = sp
            /\ ~FlagBit(registers, 128)
            /\ ~FlagBit(registers, 64)
            /\ FlagBit(registers, 32) = ((sp % 16) + (byte % 16) > 15)
            /\ FlagBit(registers, 16) = ((sp % 256) + byte > 255)

\* C32: within one PUSH rr the write of the high byte (at old SP-1) happens
\* before the write of the low byte (at old SP-2), and each write is preceded
\* by its decrement of SP: SP is the address written at the time of the write.
C32_PushWriteOrder ==
    /\ (~panicked /\ last.op = "put_memory" /\ last.addr = (origin.sp - 2) % 65536) =>
          /\ prev.op = "put_memory"
          /\ prev.addr = (origin.sp - 1) % 65536
          /\ prev.value = origin.bc \div 256
          /\ last.value = origin.bc % 256
    /\ (~panicked /\ last.op = "put_memory" /\ steps < 3) => registers.sp = last.addr

\* the result and the carry C33 gives for the 0xCB-prefixed operation `kind`
\* (bits 5..3 of the second byte: 0 RLC, 1 RRC, 2 RL, 3 RR, 4 SLA, 5 SRA,
\* 7 SRL) on the byte x with carry-in c (0 or 1)
ShiftResult(kind, x, c) ==
    CASE kind = 0 -> ((x * 2) + (x \div 128)) % 256
      [] kind = 1 -> (x \div 2) + (x % 2) * 128
      [] kind = 2 -> ((x * 2) + c) % 256
      [] kind = 3 -> (x \div 2) + c * 128
      [] kind = 4 -> (x * 2) % 256
      [] kind = 5 -> (x \div 2) + (x \div 128) * 128
      [] kind = 7 -> x \div 2
ShiftCarry(kind, x) == IF kind \in {0, 2, 4} THEN x \div 128 ELSE x % 2

BitOf(x, n) == (x \div (2 ^ n)) % 2

\* C34: BIT n,r and BIT n,(HL) set Z = (bit n of the operand = 0), N = 0,
\* H = 1 and leave C and the operand unchanged; SET n and RES n set / clear
\* exactly bit n of the operand, leave its other seven bits unchanged and
\* leave all four flags unchanged.  Stated for every step whose fetch of the
\* two opcode bytes completed.
C34_BitSetRes ==
    (/\ last.op = "step" /\ last.bytes[0] = 203 /\ last.bytes[1] >= 64
     /\ ~last.decoded.panicked) =>
        LET fam == last.bytes[1] \div 64
            n == (last.bytes[1] \div 8) % 8
            x == PrefixedOperand(last, last.before.registers, last.before.memory)
            result == PrefixedOperand(last, registers, memory)
        IN  /\ ~panicked
            /\ fam = 1 =>
                  /\ result = x
                  /\ FlagBit(registers, 128) = (BitOf(x, n) = 0)
                  /\ ~FlagBit(registers, 64)
                  /\ FlagBit(registers, 32)
                  /\ FlagBit(registers, 16) = FlagBit(last.before.registers, 16)
            /\ fam = 2 =>
                  /\ result = x - BitOf(x, n) * (2 ^ n)
                  /\ registers.af % 256 = last.before.registers.af % 256
            /\ fam = 3 =>
                  /\ result = x + (1 - BitOf(x, n)) * (2 ^ n)
                  /\ registers.af % 256 = last.before.registers.af % 256

\* SET 3,B of 0xF7 gave 0xFF with F = 0xF0 untouched, and BIT 3,B of 0x08 with
\* F = 0x10 gave Z = 0, H = 1 and kept C = 1
C34_Witness ==
    \/ /\ last.op = "step" /\ last.bytes[0] = 203 /\ last.bytes[1] = 216
       /\ last.before.registers.bc = 247 * 256
       /\ last.before.registers.af % 256 = 240
       /\ registers.bc = 255 * 256
       /\ registers.af % 256 = 240
    \/ /\ last.op = "step" /\ last.bytes[0] = 203 /\ last.bytes[1] = 88
       /\ last.before.registers.bc = 8 * 256
       /\ last.before.registers.af % 256 = 16
       /\ registers.af % 256 = 48

\* C35: every second byte 0x00..0xFF after the prefix 0xCB decodes to exactly
\* one instruction: bits 7..6 = 01, 10, 11 give BIT, RES, SET with the bit index
\* in bits 5..3; bits 7..6 = 00 give RLC, RRC, RL, RR, SLA, SRA, SWAP, SRL for
\* bits 5..3 = 0..7; bits 2..0 select the operand B, C, D, E, H, L, (HL), A.
PrefixedOperands == <<"B", "C", "D", "E", "H", "L", "HL", "A">>
PrefixedRegisterOps ==
    <<"RotateLeftCarryRegister", "RotateRightCarryRegister", "RotateLeftRegister",
      "RotateRightRegister", "ShiftLeftRegister", "ShiftRightRegisterSigned",
      "SwapRegister", "ShiftRightRegister">>
PrefixedAddrHLOps ==
    <<"RotateLeftCarryAddrHL", "RotateRightCarryAddrHL", "RotateLeftAddrHL",
      "RotateRightAddrHL", "ShiftLeftAddrHL", "ShiftRightAddrHLSigned",
      "SwapAddrHL", "ShiftRightAddrHL">>

C35_PrefixedDecode ==
    (last.op = "fetch" /\ last.bytes[0] = 203) =>
        LET x == last.bytes[1]
            group == x \div 64
            idx == (x \div 8) % 8
            operand == PrefixedOperands[(x % 8) + 1]
            r == IF operand = "HL" THEN "" ELSE operand
            bitop(if_reg, if_hl) ==
                Inst("Bit", IF operand = "HL" THEN if_hl ELSE if_reg, r, "", idx, "")
        IN  /\ last.inst # None
            /\ group = 1 => last.inst = bitop("BitRegister", "BitAddrHL")
            /\ group = 2 => last.inst = bitop("ResRegister", "ResAddrHL")
            /\ group = 3 => last.inst = bitop("SetRegister", "SetAddrHL")
            /\ group = 0 =>
                  last.inst = Inst(IF idx = 6 THEN "Misc" ELSE "RotateShift",
                                   IF operand = "HL" THEN PrefixedAddrHLOps[idx + 1]
                                   ELSE PrefixedRegisterOps[idx + 1],
                                   r, "", 0, "")

\* 0xCB 0xAE has been decoded as RES 5,(HL) and 0xCB 0x37 as SWAP A
C35_Witness ==
    /\ last.op = "fetch"
    /\ last.bytes[0] = 203
    /\ \/ last.bytes[1] = 174 /\ last.inst = Inst("Bit", "ResAddrHL", "", "", 5, "")
       \/ last.bytes[1] = 55 /\ last.inst = Inst("Misc", "SwapRegister", "A", "", 0, "")

\* stack pointers with both bytes of the pushed word in work RAM or HRAM
StackRam == (49154..57343) \cup (65410..65534)

\* C36: a CALL nn whose opcode is at P, run with SP in RAM, pushes P+3 and sets
\* PC = nn; a RET run right after it sets PC = P+3 and SP to its value before
\* the CALL.
C36_CallReturn ==
    /\ (/\ last.op = "step" /\ last.bytes[0] = 205
        /\ last.before.registers.sp \in StackRam) =>
          /\ ~panicked
          /\ registers.pc = last.bytes[1] + 256 * last.bytes[2]
          /\ registers.sp = last.before.registers.sp - 2
          /\ from_be_bytes(Memory_get(memory, registers.sp + 1),
                           Memory_get(memory, registers.sp))
                = last.before.registers.pc + 3
    /\ (/\ prev.op = "step" /\ prev.bytes[0] = 205
        /\ prev.before.registers.sp \in StackRam
        /\ last.op = "step" /\ last.bytes[0] = 201) =>
          /\ ~panicked
          /\ registers.pc = prev.before.registers.pc + 3
          /\ registers.sp = prev.before.registers.sp

\* the addresses the bus can write: everything above the ROM but the
\* prohibited region
Writable == (32768..65535) \ Prohibited

\* the echo / work-RAM partner of addr, or addr itself when it has none
Partner(addr) ==
    IF addr \in 49152..56831 THEN addr + 8192
    ELSE IF addr \in 57344..65023 THEN addr - 8192
    ELSE addr

\* C37: a write of v to a writable address A makes a read at A return v and
\* leaves the byte read at every other address unchanged, except the echo /
\* work-RAM partner of A: VRAM, external RAM, work RAM, OAM, I/O ports, HRAM
\* and the IE register at 0xFFFF are independent of each other.
C37_WriteIsLocal ==
    (last.op = "put_memory" /\ last.addr \in Writable) =>
        /\ Memory_get(memory, last.addr) = last.value
        /\ \A a \in BusAddrs \ {last.addr, Partner(last.addr)} :
              Memory_get(memory, a) = Memory_get(last.before.memory, a)

\* C38: whenever Instruction::fetch yields no instruction for the bytes at PC,
\* PC, every register and every memory byte are the same as before the fetch;
\* only the cycle counter has advanced.
C38_FailedFetchKeepsState ==
    (last.op = "step" /\ last.inst = None /\ ~last.decoded.panicked) =>
        /\ last.decoded.pc = last.before.registers.pc
        /\ registers = last.before.registers
        /\ memory = last.before.memory
        /\ cyclic > last.before.cyclic

====
